---- MODULE Spec2Model ----
(***************************************************************************)
(* Transaction core of the sales bot: PaymentService and ProductService    *)
(* (services file, src/unnamed/part_003) over the Sequelize models         *)
(* Payment and Product (src/src/models/index.js).                          *)
(*                                                                         *)
(* Every `await` on the store is a scheduling point: a service call is a   *)
(* sequence of steps, one per store access, and the steps of concurrent    *)
(* calls interleave.  A step is the store access followed by the           *)
(* synchronous code that runs up to the next store access.                 *)
(* instance.save() issues UPDATE ... SET <changed attributes> WHERE id,    *)
(* so a save writes exactly the attributes whose value differs from the    *)
(* value read by findByPk.                                                 *)
(*                                                                         *)
(* The store is SQLite (utils/db.js): Payment.status, declared ENUM, is a  *)
(* TEXT column there and save() does not validate its value, so the        *)
(* services' writes of 'REJECTED' are stored as written.  No code of the   *)
(* repository writes PROCESSING or EXPIRED to a payment.                   *)
(*                                                                         *)
(* The clock `now` counts seconds: the code's millisecond arithmetic       *)
(* (expirationTime * 1000, days * 24 * 60 * 60 * 1000) is in whole seconds *)
(* everywhere, and the values stay inside TLC's integers.                  *)
(*                                                                         *)
(* The cache (utils/cache.js) maps a key to a value with a time to live;   *)
(* its operations catch their own errors.  The risk engine (ai/fraud.js)   *)
(* reads user profiles, Activity rows and COMPLETED payments through       *)
(* UserService (src/unnamed/part_002).                                     *)
(***************************************************************************)
EXTENDS Integers, FiniteSets, Sequences, TLC

\* ---------------------------------------------------------------- bounds
NumCalls == 2
NumPayments == 2
MaxTicks == 2
MaxTx == 3
MaxViews == 2
MaxHistory == 1
TierMargin == 2

\* ------------------------------------------------------ program constants
NumProducts == 2
expirationTime == 1800
NoTime == -1
expirationDays == 90
usedExpirationDays == 365
DaySeconds == 24 * 60 * 60
NoPayment == 0

NULL == "null"
Calls == 1..NumCalls
PayIds == 1..NumPayments
ProdIds == 1..NumProducts
Users == {"u1", "u2"}
Admins == {"admin"}
Reasons == {"motivo"}
Credentials == {"cred1", "cred2"}
TickDeltas == {expirationTime + 1}
LoyaltyTickDeltas == {expirationDays * DaySeconds}
LoyaltyUsers == {"u1"}
PointArgs == {0, 30, 100}
PurchasePoints == 100
CreditMetas == {[reason |-> "PURCHASE", paymentId |-> 1],
                [reason |-> "BONUS", paymentId |-> NoPayment]}
DebitMetas == {[reason |-> "REDEEM", paymentId |-> NoPayment]}
ConcCreditArgs == {30, 100}
ConcDebitArgs == {30}
LevelCreditArgs == {30, 500}
ConcCreditMetas == {[reason |-> "BONUS", paymentId |-> NoPayment]}
NeverReconciled == [at |-> NoTime, runs |-> 0]
NoTier == [pc |-> "off", a |-> 0, b |-> 0, la |-> 0, lb |-> 0]
NoEmail == "none"
CACHE_TTL == 300
cacheTTL == 3600
riskThresholds == [low |-> 30, medium |-> 60, high |-> 80]
suspiciousEmailDomains ==
  {"tempmail.com", "disposable.com", "mailinator.com",
   "guerrillamail.com", "yopmail.com", "throwawaymail.com"}
FactorWeight == 15
PurchaseAmount == 20
NoIp == "none"
RiskUsers == {"u1"}
EmailDomains == {"gmail.com", "tempmail.com"}
RecordedActions == {[action |-> "STORE_VIEW", ip |-> NoIp],
                    [action |-> "REPORTED_BY_ADMIN", ip |-> NoIp]}
Tx(amount, productId, paymentMethod, ipAddress) ==
  [amount |-> amount, productId |-> productId, paymentMethod |-> paymentMethod,
   ipAddress |-> ipAddress]
TxArgs ==
  {Tx(3 * PurchaseAmount, 2, "PIX", NoIp), Tx(3 * PurchaseAmount + 1, 2, "PIX", NoIp),
   Tx(500, 2, "PIX", NoIp), Tx(500, 1, "PIX", "ip1"), Tx(500, 1, "CARD", NoIp)}
RiskTickDeltas == {DaySeconds}
BlockReasons == {"fraude"}
CacheKeyPending == "payments:pending"
CacheKeyProducts == "products:all"
CacheKeyProduct(i) == <<"product:1", "product:2", "product:3">>[i]
CacheKeyFraud(u) == [u1 |-> "fraud:assessment:u1", u2 |-> "fraud:assessment:u2"][u]
CacheKeys ==
  {CacheKeyPending, CacheKeyProducts}
    \cup {CacheKeyProduct(i) : i \in 1..(NumProducts + 1)}
    \cup {CacheKeyFraud(u) : u \in Users}
NoEntry == [present |-> FALSE, value |-> NULL, expiresAt |-> NoTime]

EmptyDelivery == "{}"
ReasonUnavailable == "Produto nao disponivel"

MsgOk == "ok"
MsgPaymentNotFound == "Pagamento nao encontrado"
MsgAlreadyApproved == "Pagamento ja foi aprovado"
MsgAlreadyRejectedOrExpired == "Pagamento ja foi rejeitado/expirado"
MsgProductUnavailable == "Produto nao disponivel"
MsgCannotReject == "Pagamento ja foi aprovado e nao pode ser rejeitado"
MsgRejectedBefore == "Pagamento ja foi rejeitado anteriormente"
MsgProductNotFound == "Produto nao encontrado"
MsgProductSold == "Produto ja foi vendido"
MsgApproveError == "Erro ao processar aprovacao"
MsgPointsInvalid == "Quantidade de pontos deve ser maior que zero"
MsgUserNotFound == "Usuario nao encontrado"
MsgNoAccount == "Usuario nao possui pontos de fidelidade"
MsgInsufficient == "Saldo de pontos insuficiente"
MsgStoreError == "store error"
MsgRejectError == "Erro ao processar rejeicao"

VARIABLES payments, products, activities, now, ticks, calls, succeeded,
          loyalty, reconciled, profiles, tier, cache, history

vars == <<payments, products, activities, now, ticks, calls, succeeded,
         loyalty, reconciled, profiles, tier, cache, history>>

\* ------------------------------------------------------------ the store
\* A Product row as seeded by the database initialisation.
SeedProduct ==
  [disponivel |-> TRUE, vendido |-> FALSE, dataVenda |-> NoTime, compradoPor |-> NULL,
   visualizacoes |-> 0]

\* The row Payment.create inserts.
NewPayment(userId, productId, t) ==
  [userId |-> userId, productId |-> productId, status |-> "PENDING",
   createdAt |-> t, expiresAt |-> t + expirationTime,
   completedAt |-> NoTime, approvedBy |-> NULL,
   rejectedAt |-> NoTime, rejectionReason |-> NULL, rejectedBy |-> NULL,
   deliveryData |-> EmptyDelivery]

\* instance.save(): the attributes changed since the read, written over the row.
SaveChanged(row, inst, prev) ==
  [f \in DOMAIN row |-> IF inst[f] # prev[f] THEN inst[f] ELSE row[f]]

Result(ok, msg) == [success |-> ok, message |-> msg]
NoResult == Result(FALSE, "none")

IdleCall ==
  [op |-> "none", pc |-> "idle", pid |-> 0, prodId |-> 0,
   adminId |-> NULL, reason |-> NULL, userId |-> NULL,
   payment |-> NULL, paymentPrev |-> NULL,
   product |-> NULL, productPrev |-> NULL,
   updateData |-> NULL, result |-> NoResult,
   points |-> 0, meta |-> NULL, loyalty |-> NULL, loyaltyPrev |-> NULL,
   amount |-> 0, ret |-> NULL, thrown |-> FALSE, logged |-> FALSE,
   tx |-> NULL, profile |-> NULL, base |-> NULL, factors |-> {}, failed |-> {}]

Done(c, res) == [calls[c] EXCEPT !.pc = "done", !.result = res]

AllIdle == \A c \in Calls : calls[c].pc = "idle"

\* The row User.create inserts (isBlocked defaults to false).
NewProfile(t, email) ==
  [createdAt |-> t, email |-> email, isBlocked |-> FALSE, blockReason |-> NULL]

\* The User table after findOrCreate of userId.
WithProfile(userId, email) ==
  IF userId \in DOMAIN profiles THEN profiles
  ELSE profiles @@ (userId :> NewProfile(now, email))

\* cache.get(key) finds a value: the entry was set and its TTL has not run out.
CacheHit(key) == cache[key].present /\ now < cache[key].expiresAt

\* The cache after cache.set(key, value, ttl).
CacheSet(key, value, ttl) ==
  [cache EXCEPT ![key] = [present |-> TRUE, value |-> value, expiresAt |-> now + ttl]]

\* The cache after cache.del of every key of keys.
CacheDel(keys) == [k \in CacheKeys |-> IF k \in keys THEN NoEntry ELSE cache[k]]

\* The slot that serves the requests of a sequential caller.
SeqCall == CHOOSE c \in Calls : \A d \in Calls : c <= d

Init ==
  /\ payments = <<>>
  /\ products = [i \in ProdIds |-> SeedProduct]
  /\ activities = [p \in PayIds |-> [PRODUCT_PURCHASE |-> 0, PAYMENT_REJECTED |-> 0]]
  /\ now = 0
  /\ ticks = 0
  /\ calls = [c \in Calls |-> IdleCall]
  /\ succeeded = [p \in PayIds |-> {}]
  /\ loyalty = <<>>
  /\ reconciled = [u \in Users |-> NeverReconciled]
  /\ profiles = [a \in Admins |-> NewProfile(0, NoEmail)]
  /\ cache = [k \in CacheKeys |-> NoEntry]
  /\ history = [u \in Users |-> <<>>]
  /\ tier = NoTier

\* The clock advances.
Tick ==
  /\ ticks < MaxTicks
  /\ \E d \in TickDeltas : now' = now + d
  /\ ticks' = ticks + 1
  /\ UNCHANGED <<cache, history, loyalty, reconciled, profiles, tier, payments, products, activities, calls, succeeded>>

\* ------------------------------------------------- PaymentService.createPayment
createPayment(userId, productId) ==
  /\ Len(payments) < NumPayments
  /\ payments' = Append(payments, NewPayment(userId, productId, now))
  /\ UNCHANGED <<cache, history, loyalty, reconciled, profiles, tier, products, activities, now, ticks, calls, succeeded>>

\* ------------------------------------------------ PaymentService.approvePayment
\* approvePayment's status guard without the COMPLETED case.
CanApproveNoCompletedCheck(status) == status # "REJECTED"

\* The status guard of approvePayment.
CanApprove(status) == status \in {"PENDING", "PROCESSING"}

\* The product guard of approvePayment (the product row exists).
ProductAvailable(product) == product.disponivel /\ ~product.vendido

\* The payment instance after the approval assignments.
ApprovedInstance(payment, adminId, cred, t) ==
  [payment EXCEPT !.status = "COMPLETED", !.completedAt = t,
                  !.approvedBy = adminId, !.deliveryData = cred]

\* The product-unavailable assignments without the status.
UnavailableInstanceStatusKept(payment, t) ==
  [payment EXCEPT !.rejectedAt = t, !.rejectionReason = ReasonUnavailable]

\* The payment instance after the product-unavailable assignments.
UnavailableInstance(payment, t) ==
  [payment EXCEPT !.status = "REJECTED", !.rejectedAt = t,
                  !.rejectionReason = ReasonUnavailable]

\* The product instance after the sale assignments.
SoldInstance(product, userId, t) ==
  [product EXCEPT !.vendido = TRUE, !.disponivel = FALSE,
                  !.dataVenda = t, !.compradoPor = userId]

\* Payment.findByPk and the status check.
ApproveStart(c, pid, adminId) ==
  /\ calls[c].pc = "idle"
  /\ LET call == [IdleCall EXCEPT !.op = "approve", !.pid = pid, !.adminId = adminId]
     IN IF pid \notin DOMAIN payments
        THEN calls' = [calls EXCEPT ![c] =
                 [call EXCEPT !.pc = "done", !.result = Result(FALSE, MsgPaymentNotFound)]]
        ELSE IF ~CanApprove(payments[pid].status)
        THEN calls' = [calls EXCEPT ![c] =
                 [call EXCEPT !.pc = "done",
                              !.result = Result(FALSE,
                                 IF payments[pid].status = "COMPLETED"
                                 THEN MsgAlreadyApproved
                                 ELSE MsgAlreadyRejectedOrExpired)]]
        ELSE calls' = [calls EXCEPT ![c] =
                 [call EXCEPT !.pc = "a_readProduct",
                              !.payment = payments[pid],
                              !.paymentPrev = payments[pid]]]
  /\ UNCHANGED <<cache, history, loyalty, reconciled, profiles, tier, payments, products, activities, now, ticks, succeeded>>

\* Product.findByPk, the availability check and the assignments to the payment.
ApproveReadProduct(c) ==
  /\ calls[c].pc = "a_readProduct"
  /\ LET call == calls[c]
         found == call.payment.productId \in DOMAIN products
         product == products[call.payment.productId]
     IN IF ~found \/ ~ProductAvailable(product)
        THEN calls' = [calls EXCEPT ![c] =
                 [call EXCEPT !.pc = "a_saveRejected",
                              !.payment = UnavailableInstance(call.payment, now)]]
        ELSE \E cred \in Credentials :
               calls' = [calls EXCEPT ![c] =
                 [call EXCEPT !.pc = "a_savePayment",
                              !.product = product, !.productPrev = product,
                              !.payment = ApprovedInstance(call.payment, call.adminId, cred, now)]]
  /\ UNCHANGED <<cache, history, loyalty, reconciled, profiles, tier, payments, products, activities, now, ticks, succeeded>>

\* payment.save() on the product-unavailable path, and the failure return.
ApproveSaveRejected(c) ==
  /\ calls[c].pc = "a_saveRejected"
  /\ LET call == calls[c]
     IN /\ payments' = [payments EXCEPT ![call.pid] =
                           SaveChanged(@, call.payment, call.paymentPrev)]
        /\ calls' = [calls EXCEPT ![c] = Done(c, Result(FALSE, MsgProductUnavailable))]
  /\ UNCHANGED <<cache, history, loyalty, reconciled, profiles, tier, products, activities, now, ticks, succeeded>>

\* payment.save() of the approval, then the assignments to the product.
ApproveSavePayment(c) ==
  /\ calls[c].pc = "a_savePayment"
  /\ LET call == calls[c]
     IN /\ payments' = [payments EXCEPT ![call.pid] =
                           SaveChanged(@, call.payment, call.paymentPrev)]
        /\ calls' = [calls EXCEPT ![c] =
                 [call EXCEPT !.pc = "a_saveProduct",
                              !.product = SoldInstance(call.product, call.payment.userId, now)]]
  /\ UNCHANGED <<cache, history, loyalty, reconciled, profiles, tier, products, activities, now, ticks, succeeded>>

\* product.save().
ApproveSaveProduct(c) ==
  /\ calls[c].pc = "a_saveProduct"
  /\ LET call == calls[c]
     IN /\ products' = [products EXCEPT ![call.payment.productId] =
                           SaveChanged(@, call.product, call.productPrev)]
        /\ calls' = [calls EXCEPT ![c].pc = "a_record"]
  /\ UNCHANGED <<cache, history, loyalty, reconciled, profiles, tier, payments, activities, now, ticks, succeeded>>

\* userService.recordActivity, cache and audit log, and the success return.
ApproveRecord(c) ==
  /\ calls[c].pc = "a_record"
  /\ LET pid == calls[c].pid
     IN /\ profiles' = WithProfile(payments[pid].userId, NoEmail)
        /\ activities' = [activities EXCEPT ![pid].PRODUCT_PURCHASE = @ + 1]
        /\ succeeded' = [succeeded EXCEPT ![pid] = @ \cup {"approve"}]
  /\ calls' = [calls EXCEPT ![c] = Done(c, Result(TRUE, MsgOk))]
  /\ cache' = CacheDel({CacheKeyPending})
  /\ UNCHANGED <<history, loyalty, reconciled, tier, payments, products, now, ticks>>

\* ------------------------------------------------- PaymentService.rejectPayment
\* rejectPayment's status guard without the COMPLETED case.
CanRejectNoCompletedCheck(status) == status # "REJECTED"

\* The status guard of rejectPayment.
CanReject(status) == status # "COMPLETED" /\ status # "REJECTED"

\* The rejection assignments without the rejecter id.
RejectedInstanceNoRejecter(payment, reason, adminId, t) ==
  [payment EXCEPT !.status = "REJECTED", !.rejectedAt = t,
                  !.rejectionReason = reason]

\* The payment instance after the rejection assignments.
RejectedInstance(payment, reason, adminId, t) ==
  [payment EXCEPT !.status = "REJECTED", !.rejectedAt = t,
                  !.rejectionReason = reason, !.rejectedBy = adminId]

\* Payment.findByPk, the status checks and the assignments.
RejectStart(c, pid, reason, adminId) ==
  /\ calls[c].pc = "idle"
  /\ LET call == [IdleCall EXCEPT !.op = "reject", !.pid = pid,
                                  !.reason = reason, !.adminId = adminId]
     IN IF pid \notin DOMAIN payments
        THEN calls' = [calls EXCEPT ![c] =
                 [call EXCEPT !.pc = "done", !.result = Result(FALSE, MsgPaymentNotFound)]]
        ELSE IF ~CanReject(payments[pid].status)
        THEN calls' = [calls EXCEPT ![c] =
                 [call EXCEPT !.pc = "done",
                              !.result = Result(FALSE,
                                 IF payments[pid].status = "COMPLETED"
                                 THEN MsgCannotReject
                                 ELSE MsgRejectedBefore)]]
        ELSE calls' = [calls EXCEPT ![c] =
                 [call EXCEPT !.pc = "r_save",
                              !.payment = RejectedInstance(payments[pid], reason, adminId, now),
                              !.paymentPrev = payments[pid]]]
  /\ UNCHANGED <<cache, history, loyalty, reconciled, profiles, tier, payments, products, activities, now, ticks, succeeded>>

\* payment.save().
RejectSave(c) ==
  /\ calls[c].pc = "r_save"
  /\ LET call == calls[c]
     IN /\ payments' = [payments EXCEPT ![call.pid] =
                           SaveChanged(@, call.payment, call.paymentPrev)]
        /\ calls' = [calls EXCEPT ![c].pc = "r_record"]
  /\ UNCHANGED <<cache, history, loyalty, reconciled, profiles, tier, products, activities, now, ticks, succeeded>>

\* userService.recordActivity, cache and audit log, and the success return.
RejectRecord(c) ==
  /\ calls[c].pc = "r_record"
  /\ LET pid == calls[c].pid
     IN /\ profiles' = WithProfile(payments[pid].userId, NoEmail)
        /\ activities' = [activities EXCEPT ![pid].PAYMENT_REJECTED = @ + 1]
        /\ succeeded' = [succeeded EXCEPT ![pid] = @ \cup {"reject"}]
  /\ calls' = [calls EXCEPT ![c] = Done(c, Result(TRUE, MsgOk))]
  /\ cache' = CacheDel({CacheKeyPending})
  /\ UNCHANGED <<history, loyalty, reconciled, tier, payments, products, now, ticks>>

\* ---------------------------------------------- ProductService.markProductAsSold
\* Product.findByPk, the checks and the assignments.
MarkSoldStart(c, prodId, userId) ==
  /\ calls[c].pc = "idle"
  /\ LET call == [IdleCall EXCEPT !.op = "markSold", !.prodId = prodId, !.userId = userId]
     IN IF prodId \notin DOMAIN products
        THEN calls' = [calls EXCEPT ![c] =
                 [call EXCEPT !.pc = "done", !.result = Result(FALSE, MsgProductNotFound)]]
        ELSE IF products[prodId].vendido
        THEN calls' = [calls EXCEPT ![c] =
                 [call EXCEPT !.pc = "done", !.result = Result(FALSE, MsgProductSold)]]
        ELSE calls' = [calls EXCEPT ![c] =
                 [call EXCEPT !.pc = "m_save",
                              !.product = SoldInstance(products[prodId], userId, now),
                              !.productPrev = products[prodId]]]
  /\ UNCHANGED <<cache, history, loyalty, reconciled, profiles, tier, payments, products, activities, now, ticks, succeeded>>

\* produto.save(), the cache invalidation and the success return.
MarkSoldSave(c) ==
  /\ calls[c].pc = "m_save"
  /\ LET call == calls[c]
     IN /\ products' = [products EXCEPT ![call.prodId] =
                           SaveChanged(@, call.product, call.productPrev)]
        /\ calls' = [calls EXCEPT ![c] = Done(c, Result(TRUE, MsgOk))]
  /\ cache' = CacheDel({CacheKeyProducts, CacheKeyProduct(calls[c].prodId)})
  /\ UNCHANGED <<history, loyalty, reconciled, profiles, tier, payments, activities, now, ticks, succeeded>>

\* -------------------------------------------------- ProductService.updateProduct
\* updateData restricted to the modelled attribute: disponivel given or not.
UpdateDatas ==
  {[given |-> FALSE, disponivel |-> FALSE],
   [given |-> TRUE, disponivel |-> FALSE],
   [given |-> TRUE, disponivel |-> TRUE]}

\* The product instance after the allowed fields are copied from updateData.
UpdatedInstance(product, updateData) ==
  IF updateData.given
  THEN [product EXCEPT !.disponivel = updateData.disponivel]
  ELSE product

\* Product.findByPk and the assignments.
UpdateStart(c, prodId, updateData) ==
  /\ calls[c].pc = "idle"
  /\ LET call == [IdleCall EXCEPT !.op = "update", !.prodId = prodId]
     IN IF prodId \notin DOMAIN products
        THEN calls' = [calls EXCEPT ![c] =
                 [call EXCEPT !.pc = "done", !.result = Result(FALSE, MsgProductNotFound)]]
        ELSE calls' = [calls EXCEPT ![c] =
                 [call EXCEPT !.pc = "u_save",
                              !.product = UpdatedInstance(products[prodId], updateData),
                              !.productPrev = products[prodId]]]
  /\ UNCHANGED <<cache, history, loyalty, reconciled, profiles, tier, payments, products, activities, now, ticks, succeeded>>

\* produto.save(), the cache invalidation and the success return.
UpdateSave(c) ==
  /\ calls[c].pc = "u_save"
  /\ LET call == calls[c]
     IN /\ products' = [products EXCEPT ![call.prodId] =
                           SaveChanged(@, call.product, call.productPrev)]
        /\ calls' = [calls EXCEPT ![c] = Done(c, Result(TRUE, MsgOk))]
  /\ cache' = CacheDel({CacheKeyProducts, CacheKeyProduct(calls[c].prodId)})
  /\ UNCHANGED <<history, loyalty, reconciled, profiles, tier, payments, activities, now, ticks, succeeded>>

\* The caller takes the result; the slot is free for the next request.
Return(c) ==
  /\ calls[c].pc = "done"
  /\ calls' = [calls EXCEPT ![c] = IdleCall]
  /\ UNCHANGED <<cache, history, loyalty, reconciled, profiles, tier, payments, products, activities, now, ticks, succeeded>>

\* The steps that continue a payment service call in flight, and its return.
ContinuePayment(c) ==
  \/ ApproveReadProduct(c)
  \/ ApproveSaveRejected(c)
  \/ ApproveSavePayment(c)
  \/ ApproveSaveProduct(c)
  \/ ApproveRecord(c)
  \/ RejectSave(c)
  \/ RejectRecord(c)
  \/ Return(c)

\* The steps that continue a product service call in flight.
ContinueProduct(c) ==
  \/ MarkSoldSave(c)
  \/ UpdateSave(c)

\* ---------------------------------------------- ProductService.getProductById
\* cache.get: a cached product is returned as it is; otherwise the row is read.
GetProductByIdStart(c, prodId) ==
  /\ calls[c].pc = "idle"
  /\ prodId \in DOMAIN products => products[prodId].visualizacoes < MaxViews
  /\ LET call == [IdleCall EXCEPT !.op = "getProductById", !.prodId = prodId]
     IN IF CacheHit(CacheKeyProduct(prodId))
        THEN calls' = [calls EXCEPT ![c] =
                 [call EXCEPT !.pc = "done", !.ret = cache[CacheKeyProduct(prodId)].value]]
        ELSE calls' = [calls EXCEPT ![c] = [call EXCEPT !.pc = "gb_find"]]
  /\ UNCHANGED <<cache, history, loyalty, reconciled, profiles, tier, payments, products,
                 activities, now, ticks, succeeded>>

\* Product.findByPk: null when there is no row, else the view is counted.
GetProductFind(c) ==
  /\ calls[c].pc = "gb_find"
  /\ LET call == calls[c]
     IN IF call.prodId \notin DOMAIN products
        THEN calls' = [calls EXCEPT ![c] = [call EXCEPT !.pc = "done", !.ret = NULL]]
        ELSE calls' = [calls EXCEPT ![c] =
                 [call EXCEPT !.pc = "gb_save",
                              !.product = [products[call.prodId] EXCEPT
                                              !.visualizacoes = @ + 1],
                              !.productPrev = products[call.prodId]]]
  /\ UNCHANGED <<cache, history, loyalty, reconciled, profiles, tier, payments, products,
                 activities, now, ticks, succeeded>>

\* produto.save(), cache.set of the instance, and the return of the instance.
GetProductSave(c) ==
  /\ calls[c].pc = "gb_save"
  /\ LET call == calls[c]
     IN /\ products' = [products EXCEPT ![call.prodId] =
                           SaveChanged(@, call.product, call.productPrev)]
        /\ cache' = CacheSet(CacheKeyProduct(call.prodId), call.product, CACHE_TTL)
        /\ calls' = [calls EXCEPT ![c] = [call EXCEPT !.pc = "done", !.ret = call.product]]
  /\ UNCHANGED <<history, loyalty, reconciled, profiles, tier, payments, activities,
                 now, ticks, succeeded>>

\* ----------------------------------------- ProductService.getAvailableProducts
\* The rows Product.findAll({disponivel: true, vendido: false}) returns, by id.
AvailableRows ==
  [i \in {j \in DOMAIN products : ProductAvailable(products[j])} |-> products[i]]

\* The call without filters: a cached list is returned as it is.
GetAvailableStart(c) ==
  /\ calls[c].pc = "idle"
  /\ LET call == [IdleCall EXCEPT !.op = "getAvailableProducts"]
     IN IF CacheHit(CacheKeyProducts)
        THEN calls' = [calls EXCEPT ![c] =
                 [call EXCEPT !.pc = "done", !.ret = cache[CacheKeyProducts].value]]
        ELSE calls' = [calls EXCEPT ![c] = [call EXCEPT !.pc = "ga_find"]]
  /\ UNCHANGED <<cache, history, loyalty, reconciled, profiles, tier, payments, products,
                 activities, now, ticks, succeeded>>

\* Product.findAll, cache.set of the list, and the return of the list.
GetAvailableFind(c) ==
  /\ calls[c].pc = "ga_find"
  /\ cache' = CacheSet(CacheKeyProducts, AvailableRows, CACHE_TTL)
  /\ calls' = [calls EXCEPT ![c] = [calls[c] EXCEPT !.pc = "done", !.ret = AvailableRows]]
  /\ UNCHANGED <<history, loyalty, reconciled, profiles, tier, payments, products,
                 activities, now, ticks, succeeded>>

\* The steps that continue the approval of the only payment for a product, and
\* its return.
ContinueApprove(c) ==
  \/ ApproveReadProduct(c)
  \/ ApproveSavePayment(c)
  \/ ApproveSaveProduct(c)
  \/ ApproveRecord(c)

\* The steps that continue a catalog read in flight.
ContinueCatalog(c) ==
  \/ GetProductFind(c)
  \/ GetProductSave(c)
  \/ GetAvailableFind(c)

\* ------------------------------------------------ UserService (user profiles)
\* User.findOrCreate: the profile row exists afterwards.
createUserProfile(userId, email) ==
  /\ userId \notin DOMAIN profiles
  /\ profiles' = WithProfile(userId, email)
  /\ UNCHANGED <<cache, history, loyalty, reconciled, tier, payments, products, activities, now, ticks,
                 calls, succeeded>>

\* ------------------------------------------------------------ loyalty ledger
\* The row Loyalty.create inserts.
NewLoyalty ==
  [totalPoints |-> 0, lifetimePoints |-> 0, level |-> 1, transactions |-> <<>>]

\* _calculateLoyaltyLevel with the 2000 threshold compared strictly.
calculateLoyaltyLevelStrict(lifetimePoints) ==
  IF lifetimePoints >= 10000 THEN 5
  ELSE IF lifetimePoints >= 5000 THEN 4
  ELSE IF lifetimePoints > 2000 THEN 3
  ELSE IF lifetimePoints >= 500 THEN 2
  ELSE 1

\* _calculateLoyaltyLevel.
calculateLoyaltyLevel(lifetimePoints) ==
  IF lifetimePoints >= 10000 THEN 5
  ELSE IF lifetimePoints >= 5000 THEN 4
  ELSE IF lifetimePoints >= 2000 THEN 3
  ELSE IF lifetimePoints >= 500 THEN 2
  ELSE 1

\* The transaction addPoints appends.
CreditTx(points, meta, t) ==
  [amount |-> points, reason |-> meta.reason, createdAt |-> t,
   expiresAt |-> t + expirationDays * DaySeconds, status |-> "ACTIVE",
   relatedPaymentId |-> meta.paymentId]

\* The transaction usePoints appends.
DebitTx(points, meta, t) ==
  [amount |-> 0 - points, reason |-> meta.reason, createdAt |-> t,
   expiresAt |-> t + usedExpirationDays * DaySeconds, status |-> "USED",
   relatedPaymentId |-> meta.paymentId]

\* The transaction _processExpiredPoints appends.
ExpirationTx(pointsExpired, t) ==
  [amount |-> 0 - pointsExpired, reason |-> "EXPIRATION", createdAt |-> t,
   expiresAt |-> t + usedExpirationDays * DaySeconds, status |-> "USED",
   relatedPaymentId |-> NoPayment]

\* The account instance after addPoints' assignments.
CreditedInstance(acc, points, meta, t) ==
  [acc EXCEPT !.transactions = Append(@, CreditTx(points, meta, t)),
              !.totalPoints = @ + points,
              !.lifetimePoints = @ + points,
              !.level = calculateLoyaltyLevel(acc.lifetimePoints + points)]

\* The account instance after usePoints' assignments.
DebitedInstance(acc, points, meta, t) ==
  [acc EXCEPT !.transactions = Append(@, DebitTx(points, meta, t)),
              !.totalPoints = @ - points]

\* The scan of _processExpiredPoints with expiresAt compared strictly.
ExpiredIdxStrict(txs, t) ==
  {i \in DOMAIN txs : txs[i].status = "ACTIVE" /\ txs[i].expiresAt < t}

\* The transactions _processExpiredPoints finds expired at time t.
ExpiredIdx(txs, t) ==
  {i \in DOMAIN txs : txs[i].status = "ACTIVE" /\ txs[i].expiresAt <= t}

RECURSIVE SumAmounts(_, _)
\* The sum of the amounts of the transactions at the indices in idx.
SumAmounts(txs, idx) ==
  IF idx = {} THEN 0
  ELSE LET i == CHOOSE j \in idx : TRUE
       IN txs[i].amount + SumAmounts(txs, idx \ {i})

\* pointsExpired as _processExpiredPoints accumulates it.
PointsExpired(acc, t) == SumAmounts(acc.transactions, ExpiredIdx(acc.transactions, t))

\* _processExpiredPoints that leaves the expired transactions ACTIVE.
ExpiredInstanceNoFlip(acc, t) ==
  LET pointsExpired == PointsExpired(acc, t)
  IN IF pointsExpired > 0
     THEN [acc EXCEPT !.transactions = Append(@, ExpirationTx(pointsExpired, t)),
                      !.totalPoints = @ - pointsExpired]
     ELSE acc

\* The account instance after _processExpiredPoints' assignments.
ExpiredInstance(acc, t) ==
  LET pointsExpired == PointsExpired(acc, t)
      expired == ExpiredIdx(acc.transactions, t)
      flipped == [i \in DOMAIN acc.transactions |->
                    IF i \in expired
                    THEN [acc.transactions[i] EXCEPT !.status = "EXPIRED"]
                    ELSE acc.transactions[i]]
  IN IF pointsExpired > 0
     THEN [acc EXCEPT !.transactions = Append(flipped, ExpirationTx(pointsExpired, t)),
                      !.totalPoints = @ - pointsExpired]
     ELSE acc

\* Bookkeeping of consecutive reconciliation passes of one account: the
\* time the last pass read the clock, and how many passes in a row read it.
ReconciledAgain(r, t) ==
  IF r.at = t THEN [r EXCEPT !.runs = IF @ < 2 THEN @ + 1 ELSE @]
  ELSE [at |-> t, runs |-> 1]

\* What getUserPoints returns of an account, and what it returns without one.
PointsView(acc) ==
  [amount |-> acc.totalPoints, lifetimePoints |-> acc.lifetimePoints,
   level |-> acc.level]
EmptyPointsView == [amount |-> 0, lifetimePoints |-> 0, level |-> 1]

\* Room in the transaction log for one more request.
LogHasRoom(userId) ==
  userId \in DOMAIN loyalty => Len(loyalty[userId].transactions) < MaxTx

\* addPoints: the points check and Loyalty.findOne.
AddPointsStart(c, userId, points, meta) ==
  /\ calls[c].pc = "idle"
  /\ LogHasRoom(userId)
  /\ LET call == [IdleCall EXCEPT !.op = "addPoints", !.userId = userId,
                                  !.points = points, !.meta = meta]
     IN IF points <= 0
        THEN calls' = [calls EXCEPT ![c] =
                 [call EXCEPT !.pc = "done", !.result = Result(FALSE, MsgPointsInvalid)]]
        ELSE IF userId \in DOMAIN loyalty
        THEN calls' = [calls EXCEPT ![c] =
                 [call EXCEPT !.pc = "ap_save",
                              !.loyalty = CreditedInstance(loyalty[userId], points, meta, now),
                              !.loyaltyPrev = loyalty[userId]]]
        ELSE calls' = [calls EXCEPT ![c] = [call EXCEPT !.pc = "ap_profile"]]
  /\ UNCHANGED <<cache, history, loyalty, reconciled, profiles, tier, payments, products, activities,
                 now, ticks, succeeded>>

\* addPoints that creates the account whether or not the user has a profile.
AddPointsGetProfileAnyUser(c) ==
  /\ calls[c].pc = "ap_profile"
  /\ calls' = [calls EXCEPT ![c] = [calls[c] EXCEPT !.pc = "ap_create"]]
  /\ UNCHANGED <<cache, history, loyalty, reconciled, profiles, tier, payments, products, activities,
                 now, ticks, succeeded>>

\* addPoints: userService.getUserProfile for a user without an account.
AddPointsGetProfile(c) ==
  /\ calls[c].pc = "ap_profile"
  /\ calls' = [calls EXCEPT ![c] =
        IF calls[c].userId \in DOMAIN profiles
        THEN [calls[c] EXCEPT !.pc = "ap_create"]
        ELSE Done(c, Result(FALSE, MsgUserNotFound))]
  /\ UNCHANGED <<cache, history, loyalty, reconciled, profiles, tier, payments, products, activities,
                 now, ticks, succeeded>>

\* addPoints: Loyalty.create (userId is unique) and the assignments.
AddPointsCreate(c) ==
  /\ calls[c].pc = "ap_create"
  /\ LET call == calls[c]
     IN IF call.userId \in DOMAIN loyalty
        THEN /\ calls' = [calls EXCEPT ![c] = Done(c, Result(FALSE, MsgStoreError))]
             /\ UNCHANGED <<cache, history, loyalty, reconciled>>
        ELSE /\ loyalty' = loyalty @@ (call.userId :> NewLoyalty)
             /\ reconciled' = [reconciled EXCEPT ![call.userId] = NeverReconciled]
             /\ calls' = [calls EXCEPT ![c] =
                   [call EXCEPT !.pc = "ap_save",
                                !.loyalty = CreditedInstance(NewLoyalty, call.points,
                                                             call.meta, now),
                                !.loyaltyPrev = NewLoyalty]]
  /\ UNCHANGED <<cache, history, profiles, tier, payments, products, activities, now, ticks, succeeded>>

\* loyalty.save() of a call at position pc, and the call's return value.
LoyaltySave(c, pc) ==
  /\ calls[c].pc = pc
  /\ LET call == calls[c]
     IN /\ loyalty' = [loyalty EXCEPT ![call.userId] =
                          SaveChanged(@, call.loyalty, call.loyaltyPrev)]
        /\ calls' = [calls EXCEPT ![c] =
              [call EXCEPT !.pc = "done", !.result = Result(TRUE, MsgOk),
                           !.amount = call.loyalty.totalPoints,
                           !.ret = IF call.op = "getUserPoints"
                                   THEN PointsView(call.loyalty) ELSE @]]

\* addPoints: loyalty.save(), audit log and the success return.
AddPointsSave(c) ==
  /\ LoyaltySave(c, "ap_save")
  /\ reconciled' = [reconciled EXCEPT ![calls[c].userId] = NeverReconciled]
  /\ UNCHANGED <<cache, history, profiles, tier, payments, products, activities, now, ticks, succeeded>>

\* usePoints: the points check, Loyalty.findOne and the balance check.
UsePointsStart(c, userId, points, meta) ==
  /\ calls[c].pc = "idle"
  /\ LogHasRoom(userId)
  /\ LET call == [IdleCall EXCEPT !.op = "usePoints", !.userId = userId,
                                  !.points = points, !.meta = meta]
     IN IF points <= 0
        THEN calls' = [calls EXCEPT ![c] =
                 [call EXCEPT !.pc = "done", !.result = Result(FALSE, MsgPointsInvalid)]]
        ELSE IF userId \notin DOMAIN loyalty
        THEN calls' = [calls EXCEPT ![c] =
                 [call EXCEPT !.pc = "done", !.result = Result(FALSE, MsgNoAccount)]]
        ELSE IF loyalty[userId].totalPoints < points
        THEN calls' = [calls EXCEPT ![c] =
                 [call EXCEPT !.pc = "done", !.result = Result(FALSE, MsgInsufficient),
                              !.amount = loyalty[userId].totalPoints]]
        ELSE calls' = [calls EXCEPT ![c] =
                 [call EXCEPT !.pc = "up_save",
                              !.loyalty = DebitedInstance(loyalty[userId], points, meta, now),
                              !.loyaltyPrev = loyalty[userId]]]
  /\ UNCHANGED <<cache, history, loyalty, reconciled, profiles, tier, payments, products, activities,
                 now, ticks, succeeded>>

\* usePoints: loyalty.save(), audit log and the success return.
UsePointsSave(c) ==
  /\ LoyaltySave(c, "up_save")
  /\ reconciled' = [reconciled EXCEPT ![calls[c].userId] = NeverReconciled]
  /\ UNCHANGED <<cache, history, profiles, tier, payments, products, activities, now, ticks, succeeded>>

\* getUserPoints: Loyalty.findOne and the scan of _processExpiredPoints.
GetUserPointsStart(c, userId) ==
  /\ calls[c].pc = "idle"
  /\ LET call == [IdleCall EXCEPT !.op = "getUserPoints", !.userId = userId]
     IN IF userId \notin DOMAIN loyalty
        THEN /\ calls' = [calls EXCEPT ![c] =
                   [call EXCEPT !.pc = "done", !.result = Result(TRUE, MsgOk),
                                !.ret = EmptyPointsView]]
             /\ UNCHANGED reconciled
        ELSE IF PointsExpired(loyalty[userId], now) > 0
        THEN /\ calls' = [calls EXCEPT ![c] =
                   [call EXCEPT !.pc = "gp_save",
                                !.loyalty = ExpiredInstance(loyalty[userId], now),
                                !.loyaltyPrev = loyalty[userId]]]
             /\ UNCHANGED reconciled
        ELSE /\ calls' = [calls EXCEPT ![c] =
                   [call EXCEPT !.pc = "done", !.result = Result(TRUE, MsgOk),
                                !.amount = loyalty[userId].totalPoints,
                                !.ret = PointsView(loyalty[userId])]]
             /\ reconciled' = [reconciled EXCEPT ![userId] = ReconciledAgain(@, now)]
  /\ UNCHANGED <<cache, history, loyalty, profiles, tier, payments, products, activities,
                 now, ticks, succeeded>>

\* _processExpiredPoints: loyalty.save(); getUserPoints returns the balance.
ProcessExpiredSave(c) ==
  /\ LoyaltySave(c, "gp_save")
  /\ LET txs == calls[c].loyalty.transactions
     IN reconciled' = [reconciled EXCEPT ![calls[c].userId] =
                          ReconciledAgain(@, txs[Len(txs)].createdAt)]
  /\ UNCHANGED <<cache, history, profiles, tier, payments, products, activities, now, ticks, succeeded>>

\* The clock advances by the lifetime of a credit.
LoyaltyTick ==
  /\ ticks < MaxTicks
  /\ \E d \in LoyaltyTickDeltas : now' = now + d
  /\ ticks' = ticks + 1
  /\ UNCHANGED <<cache, history, loyalty, reconciled, profiles, tier, payments, products, activities,
                 calls, succeeded>>

\* The steps that continue an addPoints call in flight.
ContinueAddPoints(c) ==
  \/ AddPointsGetProfile(c)
  \/ AddPointsCreate(c)
  \/ AddPointsSave(c)

\* The steps that continue a loyalty call in flight.
ContinueLoyalty(c) ==
  \/ ContinueAddPoints(c)
  \/ UsePointsSave(c)
  \/ ProcessExpiredSave(c)

\* ---------------------------------------- store write failure in approvePayment
\* A save() of approvePayment rejects: nothing is written and the catch
\* block returns the failure.
ApproveSaveFails(c) ==
  /\ calls[c].pc \in {"a_saveRejected", "a_savePayment", "a_saveProduct"}
  /\ calls' = [calls EXCEPT ![c] = Done(c, Result(FALSE, MsgApproveError))]
  /\ UNCHANGED <<cache, history, loyalty, reconciled, profiles, tier, payments, products, activities,
                 now, ticks, succeeded>>

\* Payment.create or newPayment.save() of createPayment rejects: the catch block
\* logs and throws the error again. The row exists when it was the save that
\* failed.
CreatePaymentThrows(c, userId, productId) ==
  /\ calls[c].pc = "idle"
  /\ \E inserted \in BOOLEAN :
        IF inserted
        THEN /\ Len(payments) < NumPayments
             /\ payments' = Append(payments, NewPayment(userId, productId, now))
        ELSE UNCHANGED payments
  /\ calls' = [calls EXCEPT ![c] =
         [IdleCall EXCEPT !.op = "createPayment", !.pc = "done", !.userId = userId,
                          !.prodId = productId, !.thrown = TRUE, !.logged = TRUE]]
  /\ UNCHANGED <<cache, history, loyalty, reconciled, profiles, tier, products, activities,
                 now, ticks, succeeded>>

\* payment.save() of rejectPayment rejects: the catch block returns the failure.
RejectSaveFails(c) ==
  /\ calls[c].pc = "r_save"
  /\ calls' = [calls EXCEPT ![c] =
         [Done(c, Result(FALSE, MsgRejectError)) EXCEPT !.logged = TRUE]]
  /\ UNCHANGED <<cache, history, loyalty, reconciled, profiles, tier, payments, products,
                 activities, now, ticks, succeeded>>

\* ------------------------------------------ PaymentService.getPendingApprovals
\* The rows Payment.findAll({status: [PENDING, PROCESSING]}) returns, by id.
PendingRows ==
  [p \in {q \in DOMAIN payments : payments[q].status \in {"PENDING", "PROCESSING"}}
     |-> payments[p]]

\* cache.get: a cached list is returned as it is.
GetPendingStart(c) ==
  /\ calls[c].pc = "idle"
  /\ LET call == [IdleCall EXCEPT !.op = "getPendingApprovals"]
     IN IF CacheHit(CacheKeyPending)
        THEN calls' = [calls EXCEPT ![c] =
                 [call EXCEPT !.pc = "done", !.ret = cache[CacheKeyPending].value]]
        ELSE calls' = [calls EXCEPT ![c] = [call EXCEPT !.pc = "pa_find"]]
  /\ UNCHANGED <<cache, history, loyalty, reconciled, profiles, tier, payments, products,
                 activities, now, ticks, succeeded>>

\* Payment.findAll, cache.set of the list, and the return of the list.
GetPendingFind(c) ==
  /\ calls[c].pc = "pa_find"
  /\ cache' = CacheSet(CacheKeyPending, PendingRows, CACHE_TTL)
  /\ calls' = [calls EXCEPT ![c] = [calls[c] EXCEPT !.pc = "done", !.ret = PendingRows]]
  /\ UNCHANGED <<history, loyalty, reconciled, profiles, tier, payments, products,
                 activities, now, ticks, succeeded>>

\* Payment.findAll rejects: the catch block logs and returns the empty list.
GetPendingFails(c) ==
  /\ calls[c].pc = "pa_find"
  /\ calls' = [calls EXCEPT ![c] =
         [calls[c] EXCEPT !.pc = "done", !.ret = <<>>, !.logged = TRUE]]
  /\ UNCHANGED <<cache, history, loyalty, reconciled, profiles, tier, payments, products,
                 activities, now, ticks, succeeded>>

\* userService.recordActivity inside approvePayment fails: its catch block
\* returns false and the approval goes on to the cache and the success return.
\* The profile exists when it was Activity.create that failed.
ApproveRecordFails(c) ==
  /\ calls[c].pc = "a_record"
  /\ \E created \in BOOLEAN :
        profiles' = IF created THEN WithProfile(payments[calls[c].pid].userId, NoEmail)
                    ELSE profiles
  /\ succeeded' = [succeeded EXCEPT ![calls[c].pid] = @ \cup {"approve"}]
  /\ calls' = [calls EXCEPT ![c] = Done(c, Result(TRUE, MsgOk))]
  /\ cache' = CacheDel({CacheKeyPending})
  /\ UNCHANGED <<history, loyalty, reconciled, tier, payments, products, activities,
                 now, ticks>>

\* ------------------------------------------------------ UserService (activity)
\* userService.recordActivity(userId, action, data): the profile is created when
\* missing and the row is added. The cap of 100 rows per user is never reached
\* with MaxHistory rows.
recordActivity(userId, row) ==
  /\ Len(history[userId]) < MaxHistory
  /\ profiles' = WithProfile(userId, NoEmail)
  /\ history' = [history EXCEPT ![userId] = Append(@, row)]
  /\ UNCHANGED <<cache, loyalty, reconciled, tier, payments, products, activities,
                 now, ticks, calls, succeeded>>

\* userService.blockUser: the profile is marked blocked; no cache entry is touched.
blockUser(userId, reason) ==
  /\ userId \in DOMAIN profiles
  /\ ~profiles[userId].isBlocked
  /\ profiles' = [profiles EXCEPT ![userId].isBlocked = TRUE,
                                  ![userId].blockReason = reason]
  /\ UNCHANGED <<cache, history, loyalty, reconciled, tier, payments, products, activities,
                 now, ticks, calls, succeeded>>

Repeat(row, n) == [i \in 1..n |-> row]

RECURSIVE PaymentRows(_, _)
\* The Activity rows approvePayment and rejectPayment recorded for the payments
\* 1..p of the user.
PaymentRows(userId, p) ==
  IF p = 0 THEN <<>>
  ELSE PaymentRows(userId, p - 1) \o
       (IF p \in DOMAIN payments /\ payments[p].userId = userId
        THEN Repeat([action |-> "PRODUCT_PURCHASE", ip |-> NoIp],
                    activities[p].PRODUCT_PURCHASE)
             \o Repeat([action |-> "PAYMENT_REJECTED", ip |-> NoIp],
                       activities[p].PAYMENT_REJECTED)
        ELSE <<>>)

\* userService.getUserHistory(userId, limit): the user's Activity rows.
getUserHistory(userId) == history[userId] \o PaymentRows(userId, NumPayments)

\* userService.getPurchaseHistory(userId): the user's COMPLETED payments.
getPurchaseHistory(userId) ==
  {p \in DOMAIN payments : payments[p].userId = userId /\ payments[p].status = "COMPLETED"}

\* ------------------------------------------------------ FraudDetectionSystem
Count(hist, actions) == Cardinality({i \in DOMAIN hist : hist[i].action \in actions})

\* "Many attempts, few completed purchases": attempts > 5 and
\* successes / attempts < 0.3.
HighFailureRate(hist) ==
  /\ Count(hist, {"PAYMENT_INITIATED"}) > 5
  /\ 10 * Count(hist, {"PAYMENT_COMPLETED", "PRODUCT_PURCHASE"})
       < 3 * Count(hist, {"PAYMENT_INITIATED"})

\* The attempts of the last hour are filtered on action.timestamp, an attribute
\* Activity rows do not have: the comparison with an invalid date is false for
\* every row.
RecentAttempts(hist) == {}

\* _calculateRiskScore without the ceiling.
calculateRiskScoreUncapped(profile, hist, t) ==
  LET age == t - profile.createdAt
      ageScore == IF age < DaySeconds THEN 30
                  ELSE IF age < 7 * DaySeconds THEN 20
                  ELSE IF age < 30 * DaySeconds THEN 10 ELSE 0
      emailScore == IF profile.email # NoEmail /\ profile.email \in suspiciousEmailDomains
                    THEN 25 ELSE 0
      historyScore ==
        IF Len(hist) = 0 THEN 15
        ELSE (IF HighFailureRate(hist) THEN 15 ELSE 0)
             + (IF Count(hist, {"REPORTED_BY_ADMIN"}) > 0 THEN 40 ELSE 0)
             + (IF Cardinality(RecentAttempts(hist)) >= 3 THEN 20 ELSE 0)
      blockedScore == IF profile.isBlocked THEN 100 ELSE 0
  IN ageScore + emailScore + historyScore + blockedScore

\* _calculateRiskScore.
calculateRiskScore(profile, hist, t) ==
  LET score == calculateRiskScoreUncapped(profile, hist, t)
  IN IF score < 100 THEN score ELSE 100

\* _identifyRiskFactors.
identifyRiskFactors(profile, hist, t) ==
  LET age == t - profile.createdAt
  IN (IF age < DaySeconds THEN {"very_new_account"}
      ELSE IF age < 7 * DaySeconds THEN {"new_account"} ELSE {})
     \cup (IF profile.email # NoEmail /\ profile.email \in suspiciousEmailDomains
           THEN {"suspicious_email_domain"} ELSE {})
     \cup (IF profile.isBlocked THEN {"account_blocked", profile.blockReason} ELSE {})
     \cup (IF Len(hist) > 0
           THEN (IF HighFailureRate(hist) THEN {"high_failure_rate"} ELSE {})
                \cup (IF Cardinality(RecentAttempts(hist)) >= 3
                      THEN {"rapid_purchase_attempts"} ELSE {})
                \cup (IF Count(hist, {"REPORTED_BY_ADMIN"}) > 0
                      THEN {"previously_reported"} ELSE {})
           ELSE {"no_activity_history"})

\* The risk level assessUserRisk derives from a score.
RiskLevel(score) ==
  IF score >= riskThresholds.high THEN "high"
  ELSE IF score >= riskThresholds.medium THEN "medium" ELSE "low"

\* The assessment of a user without profile.
UnknownAssessment ==
  [risk |-> "medium", score |-> 50, factors |-> {"new_user", "unknown_profile"}]

\* The assessment the catch block of assessUserRisk returns.
ErrorAssessment == [risk |-> "low", score |-> 0, factors |-> {"assessment_error"}]

\* The assessment computed from a profile and a history at time t.
Assessment(profile, hist, t) ==
  [risk |-> RiskLevel(calculateRiskScore(profile, hist, t)),
   score |-> calculateRiskScore(profile, hist, t),
   factors |-> identifyRiskFactors(profile, hist, t)]

\* The result checkTransaction builds.
Verdict(approved, score, reasons) ==
  [approved |-> approved, score |-> score, reasons |-> reasons]

\* The call once assessUserRisk has its assessment: assessUserRisk returns it;
\* checkTransaction rejects on high risk and otherwise goes on to the purchases.
Assessed(call, assessment) ==
  IF call.op = "assessUserRisk"
  THEN [call EXCEPT !.pc = "done", !.ret = assessment]
  ELSE IF assessment.risk = "high"
  THEN [call EXCEPT !.pc = "done", !.base = assessment,
                    !.ret = Verdict(FALSE, assessment.score, assessment.factors)]
  ELSE [call EXCEPT !.pc = "ct_purchases", !.base = assessment]

\* assessUserRisk(userId), called directly or by checkTransaction(tx):
\* cache.get. cacheOk is false when the cache fails: cache.get logs and
\* returns null.
AssessStart(c, op, userId, tx, cacheOk) ==
  /\ calls[c].pc = "idle"
  /\ LET call == [IdleCall EXCEPT !.op = op, !.userId = userId, !.tx = tx]
     IN IF cacheOk /\ CacheHit(CacheKeyFraud(userId))
        THEN calls' = [calls EXCEPT ![c] = Assessed(call, cache[CacheKeyFraud(userId)].value)]
        ELSE calls' = [calls EXCEPT ![c] =
                 [call EXCEPT !.pc = "ar_profile",
                              !.failed = IF cacheOk THEN {} ELSE {"cache"},
                              !.logged = ~cacheOk]]
  /\ UNCHANGED <<cache, history, loyalty, reconciled, profiles, tier, payments, products,
                 activities, now, ticks, succeeded>>

\* userService.getUserProfile: without profile the medium assessment is cached
\* and returned.
AssessGetProfile(c) ==
  /\ calls[c].pc = "ar_profile"
  /\ LET call == calls[c]
     IN IF call.userId \notin DOMAIN profiles
        THEN /\ cache' = CacheSet(CacheKeyFraud(call.userId), UnknownAssessment, cacheTTL)
             /\ calls' = [calls EXCEPT ![c] = Assessed(call, UnknownAssessment)]
        ELSE /\ calls' = [calls EXCEPT ![c] =
                   [call EXCEPT !.pc = "ar_history", !.profile = profiles[call.userId]]]
             /\ UNCHANGED cache
  /\ UNCHANGED <<history, loyalty, reconciled, profiles, tier, payments, products,
                 activities, now, ticks, succeeded>>

\* userService.getUserHistory, the score, the level and the factors, cache.set
\* and the return.
AssessGetHistory(c) ==
  /\ calls[c].pc = "ar_history"
  /\ LET call == calls[c]
         assessment == Assessment(call.profile, getUserHistory(call.userId), now)
     IN /\ cache' = CacheSet(CacheKeyFraud(call.userId), assessment, cacheTTL)
        /\ calls' = [calls EXCEPT ![c] = Assessed(call, assessment)]
  /\ UNCHANGED <<history, loyalty, reconciled, profiles, tier, payments, products,
                 activities, now, ticks, succeeded>>

\* getUserProfile or getUserHistory throws inside assessUserRisk, without the
\* logging of the catch block.
AssessFailsSilent(c) ==
  /\ calls[c].pc \in {"ar_profile", "ar_history"}
  /\ calls' = [calls EXCEPT ![c] =
         [Assessed(calls[c], ErrorAssessment) EXCEPT
            !.failed = @ \cup {IF calls[c].pc = "ar_profile" THEN "profile" ELSE "history"}]]
  /\ UNCHANGED <<cache, history, loyalty, reconciled, profiles, tier, payments, products,
                 activities, now, ticks, succeeded>>

\* getUserProfile or getUserHistory throws inside assessUserRisk: the catch
\* block logs and returns the low assessment.
AssessFails(c) ==
  /\ calls[c].pc \in {"ar_profile", "ar_history"}
  /\ calls' = [calls EXCEPT ![c] =
         [Assessed(calls[c], ErrorAssessment) EXCEPT
            !.failed = @ \cup {IF calls[c].pc = "ar_profile" THEN "profile" ELSE "history"},
            !.logged = TRUE]]
  /\ UNCHANGED <<cache, history, loyalty, reconciled, profiles, tier, payments, products,
                 activities, now, ticks, succeeded>>

\* The transaction factors checkTransaction derives from the purchase history.
\* Every purchase has the amount PurchaseAmount, so the comparison with three
\* times the average is made on the sums; every payment is created with method
\* PIX, so hasOnlyPixPayments holds of every purchase history.
PurchaseFactors(tx, purchases, t) ==
  (IF Cardinality(purchases) > 0
      /\ tx.amount * Cardinality(purchases) > 3 * PurchaseAmount * Cardinality(purchases)
   THEN {"amount_much_higher_than_average"} ELSE {})
  \cup (IF \E p \in purchases : /\ payments[p].productId = tx.productId
                                 /\ t - payments[p].completedAt < 7 * DaySeconds
        THEN {"repeated_purchase"} ELSE {})
  \cup (IF tx.paymentMethod # "PIX" /\ Cardinality(purchases) > 0
        THEN {"unusual_payment_method"} ELSE {})

\* The addresses found in the data of the user's Activity rows.
PreviousIPs(hist) == {hist[i].ip : i \in DOMAIN hist} \ {NoIp}

\* The result of checkTransaction for a base assessment and transaction factors.
Combined(base, factors) ==
  LET finalScore == base.score + Cardinality(factors) * FactorWeight
  IN Verdict(finalScore < riskThresholds.high, finalScore, base.factors \cup factors)

\* userService.getPurchaseHistory and the factors of amount, repetition and
\* payment method. storeOk is false when Payment.findAll rejects:
\* getPurchaseHistory logs and returns the empty list.
CheckGetPurchases(c, storeOk) ==
  /\ calls[c].pc = "ct_purchases"
  /\ LET call == calls[c]
         purchases == IF storeOk THEN getPurchaseHistory(call.userId) ELSE {}
         factors == PurchaseFactors(call.tx, purchases, now)
         next == [call EXCEPT !.factors = factors,
                              !.failed = IF storeOk THEN @ ELSE @ \cup {"purchases"},
                              !.logged = IF storeOk THEN @ ELSE TRUE]
     IN IF call.tx.ipAddress # NoIp
        THEN calls' = [calls EXCEPT ![c] = [next EXCEPT !.pc = "ct_ips"]]
        ELSE calls' = [calls EXCEPT ![c] =
                 [next EXCEPT !.pc = "done", !.ret = Combined(call.base, factors)]]
  /\ UNCHANGED <<cache, history, loyalty, reconciled, profiles, tier, payments, products,
                 activities, now, ticks, succeeded>>

\* userService.getUserHistory(userId, 50), the address factor and the return.
CheckGetIps(c) ==
  /\ calls[c].pc = "ct_ips"
  /\ LET call == calls[c]
         ips == PreviousIPs(getUserHistory(call.userId))
         factors == call.factors \cup
                    (IF ips # {} /\ call.tx.ipAddress \notin ips
                     THEN {"new_ip_address"} ELSE {})
     IN calls' = [calls EXCEPT ![c] =
            [call EXCEPT !.pc = "done", !.factors = factors,
                         !.ret = Combined(call.base, factors)]]
  /\ UNCHANGED <<cache, history, loyalty, reconciled, profiles, tier, payments, products,
                 activities, now, ticks, succeeded>>

\* getUserHistory throws inside checkTransaction: the catch block logs and
\* approves with score 0.
CheckFails(c) ==
  /\ calls[c].pc = "ct_ips"
  /\ calls' = [calls EXCEPT ![c] =
         [calls[c] EXCEPT !.pc = "done", !.ret = Verdict(TRUE, 0, {"verification_error"}),
                          !.failed = @ \cup {"history"}, !.logged = TRUE]]
  /\ UNCHANGED <<cache, history, loyalty, reconciled, profiles, tier, payments, products,
                 activities, now, ticks, succeeded>>

\* The steps that continue a risk engine call in flight.
ContinueRisk(c) ==
  \/ AssessGetProfile(c)
  \/ AssessGetHistory(c)
  \/ CheckGetPurchases(c, TRUE)
  \/ CheckGetIps(c)

\* The steps of a risk engine call in which a collaborator fails.
FailRisk(c) ==
  \/ AssessFails(c)
  \/ CheckGetPurchases(c, FALSE)
  \/ CheckFails(c)

\* The clock advances between requests to the risk engine.
RiskTick ==
  /\ AllIdle
  /\ ticks < MaxTicks
  /\ \E d \in RiskTickDeltas : now' = now + d
  /\ ticks' = ticks + 1
  /\ UNCHANGED <<cache, history, loyalty, reconciled, profiles, tier, payments, products,
                 activities, calls, succeeded>>

\* ------------------------------------------------- the tier function, applied
\* The lifetime point values passed to the tier function: around its thresholds.
TierThresholds == {0, 500, 2000, 5000, 10000}
TierInputs ==
  {n \in UNION {(th - TierMargin)..(th + TierMargin) : th \in TierThresholds} : n >= 0}

\* _calculateLoyaltyLevel applied to the two inputs.
CalcTier ==
  /\ tier.pc = "in"
  /\ tier' = [tier EXCEPT !.pc = "out",
                          !.la = calculateLoyaltyLevel(tier.a),
                          !.lb = calculateLoyaltyLevel(tier.b)]
  /\ UNCHANGED <<cache, history, loyalty, reconciled, profiles, payments, products, activities,
                 now, ticks, calls, succeeded>>

\* -------------------------------------------------------- specifications
\* Concurrent requests: the steps of the calls interleave freely.
Next ==
  \/ \E u \in Users, i \in ProdIds : createPayment(u, i)
  \/ \E c \in Calls, p \in PayIds, a \in Admins : ApproveStart(c, p, a)
  \/ \E c \in Calls, p \in PayIds, r \in Reasons, a \in Admins : RejectStart(c, p, r, a)
  \/ \E c \in Calls : ContinuePayment(c)

Spec == Init /\ [][Next]_vars

\* Sequential use: a request starts only when no other call is in flight.
SeqApprove(pid, adminId) == AllIdle /\ ApproveStart(SeqCall, pid, adminId)
SeqReject(pid, reason, adminId) == AllIdle /\ RejectStart(SeqCall, pid, reason, adminId)
SeqMarkSold(prodId, userId) == AllIdle /\ MarkSoldStart(SeqCall, prodId, userId)
SeqUpdate(prodId, updateData) == AllIdle /\ UpdateStart(SeqCall, prodId, updateData)

\* Product ids a caller may pass: the catalog's and one that is not in it.
ProdArgs == 1..(NumProducts + 1)

\* Sequential use of the payment and product services.
NextSeq ==
  \/ \E u \in Users, i \in ProdIds : createPayment(u, i)
  \/ \E p \in PayIds, a \in Admins : SeqApprove(p, a)
  \/ \E p \in PayIds, r \in Reasons, a \in Admins : SeqReject(p, r, a)
  \/ \E i \in ProdArgs, u \in Users : SeqMarkSold(i, u)
  \/ \E i \in ProdArgs, d \in UpdateDatas : SeqUpdate(i, d)
  \/ \E c \in Calls : ContinuePayment(c)
  \/ \E c \in Calls : ContinueProduct(c)

SpecSeq == Init /\ [][NextSeq]_vars

\* Sequential use of the payment and product services by one buyer, whose
\* payments may name a product that is not in the catalog.
NextUnavailable ==
  \/ \E u \in RiskUsers, i \in ProdArgs : createPayment(u, i)
  \/ \E p \in PayIds, a \in Admins : SeqApprove(p, a)
  \/ \E p \in PayIds, r \in Reasons, a \in Admins : SeqReject(p, r, a)
  \/ \E i \in ProdIds, u \in RiskUsers : SeqMarkSold(i, u)
  \/ \E i \in ProdIds, d \in UpdateDatas : SeqUpdate(i, d)
  \/ \E c \in Calls : ContinuePayment(c)
  \/ \E c \in Calls : ContinueProduct(c)

SpecUnavailable == Init /\ [][NextUnavailable]_vars

\* Sequential use of the payment service while the clock advances.
NextTimed ==
  \/ Tick
  \/ \E u \in Users, i \in ProdIds : createPayment(u, i)
  \/ \E p \in PayIds, a \in Admins : SeqApprove(p, a)
  \/ \E p \in PayIds, r \in Reasons, a \in Admins : SeqReject(p, r, a)
  \/ \E c \in Calls : ContinuePayment(c)

SpecTimed == Init /\ [][NextTimed]_vars

\* Sequential purchases and catalog reads, within the TTL of the cache entries.
SeqGetProductById(prodId) == AllIdle /\ GetProductByIdStart(SeqCall, prodId)
SeqGetAvailable == AllIdle /\ GetAvailableStart(SeqCall)

NextCatalog ==
  \/ \E u \in Users, i \in ProdIds : createPayment(u, i)
  \/ \E p \in PayIds, a \in Admins : SeqApprove(p, a)
  \/ \E p \in PayIds, r \in Reasons, a \in Admins : SeqReject(p, r, a)
  \/ \E i \in ProdArgs : SeqGetProductById(i)
  \/ SeqGetAvailable
  \/ \E c \in Calls : ContinuePayment(c)
  \/ \E c \in Calls : ContinueCatalog(c)

SpecCatalog == Init /\ [][NextCatalog]_vars

\* The row reportFraud records for the user.
FraudRow == [action |-> "FRAUD_DETECTED", ip |-> NoIp]

\* reportFraud(fraudData): userService.recordActivity(userId, 'FRAUD_DETECTED')
\* creates the profile when missing and adds the row.
ReportFraudStart(c, userId) ==
  /\ calls[c].pc = "idle"
  /\ Len(history[userId]) < MaxHistory
  /\ profiles' = WithProfile(userId, NoEmail)
  /\ history' = [history EXCEPT ![userId] = Append(@, FraudRow)]
  /\ calls' = [calls EXCEPT ![c] =
         [IdleCall EXCEPT !.op = "reportFraud", !.pc = "rf_del", !.userId = userId]]
  /\ UNCHANGED <<cache, loyalty, reconciled, tier, payments, products, activities,
                 now, ticks, succeeded>>

\* reportFraud: cache.del of the user's assessment.
ReportFraudDel(c) ==
  /\ calls[c].pc = "rf_del"
  /\ cache' = CacheDel({CacheKeyFraud(calls[c].userId)})
  /\ calls' = [calls EXCEPT ![c].pc = "rf_blacklist"]
  /\ UNCHANGED <<history, loyalty, reconciled, profiles, tier, payments, products,
                 activities, now, ticks, succeeded>>

\* reportFraud: _addToBlacklist calls userService.updateUserStatus, which
\* UserService does not have; the TypeError is caught and logged inside
\* _addToBlacklist, and reportFraud returns true.
ReportFraudBlacklist(c) ==
  /\ calls[c].pc = "rf_blacklist"
  /\ calls' = [calls EXCEPT ![c] =
         [calls[c] EXCEPT !.pc = "done", !.ret = TRUE, !.logged = TRUE]]
  /\ UNCHANGED <<cache, history, loyalty, reconciled, profiles, tier, payments, products,
                 activities, now, ticks, succeeded>>

\* The steps of a reportFraud call after its first.
ContinueReport(c) ==
  \/ ReportFraudDel(c)
  \/ ReportFraudBlacklist(c)

\* Sequential requests of one user to the risk engine.
SeqAssess(userId) ==
  AllIdle /\ AssessStart(SeqCall, "assessUserRisk", userId, NULL, TRUE)
SeqCheck(userId, tx) ==
  AllIdle /\ AssessStart(SeqCall, "checkTransaction", userId, tx, TRUE)
SeqAssessCacheFails(userId) ==
  AllIdle /\ AssessStart(SeqCall, "assessUserRisk", userId, NULL, FALSE)
SeqCheckCacheFails(userId, tx) ==
  AllIdle /\ AssessStart(SeqCall, "checkTransaction", userId, tx, FALSE)

SeqRegister(userId, email) == AllIdle /\ createUserProfile(userId, email)
SeqBlockUser(userId, reason) == AllIdle /\ blockUser(userId, reason)
SeqRecordActivity(userId, row) == AllIdle /\ recordActivity(userId, row)
SeqFirstPayment(userId, productId) ==
  AllIdle /\ payments = <<>> /\ createPayment(userId, productId)

\* The user's account: registration, recorded activity, a block by the
\* administrator, and the requests to the risk engine, as days pass.
NextAccount ==
  \/ RiskTick
  \/ \E u \in RiskUsers, e \in EmailDomains : SeqRegister(u, e)
  \/ \E u \in RiskUsers, r \in BlockReasons : SeqBlockUser(u, r)
  \/ \E u \in RiskUsers, row \in RecordedActions : SeqRecordActivity(u, row)
  \/ \E u \in RiskUsers : SeqAssess(u)
  \/ \E u \in RiskUsers, tx \in TxArgs : SeqCheck(u, tx)
  \/ \E c \in Calls : ContinueRisk(c)
  \/ \E c \in Calls : Return(c)

\* The account and one purchase of product 1 by the user.
NextRisk ==
  \/ NextAccount
  \/ \E u \in RiskUsers : SeqFirstPayment(u, 1)
  \/ \E p \in PayIds, a \in Admins : SeqApprove(p, a)
  \/ \E c \in Calls : ContinueApprove(c)
  \/ \E c \in Calls : ApproveRecordFails(c)

SpecRisk == Init /\ [][NextRisk]_vars

\* The account, with collaborators of the risk engine that fail.
NextRiskFail ==
  \/ NextAccount
  \/ \E u \in RiskUsers : SeqAssessCacheFails(u)
  \/ \E u \in RiskUsers, tx \in TxArgs : SeqCheckCacheFails(u, tx)
  \/ \E c \in Calls : FailRisk(c)

SpecRiskFail == Init /\ [][NextRiskFail]_vars

\* The account, with fraud reports by the administrator.
SeqReportFraud(userId) == AllIdle /\ ReportFraudStart(SeqCall, userId)

NextReport ==
  \/ NextAccount
  \/ \E u \in RiskUsers : SeqReportFraud(u)
  \/ \E c \in Calls : ContinueReport(c)

SpecReport == Init /\ [][NextReport]_vars

\* Sequential requests to the loyalty service.
SeqAddPoints(userId, points, meta) ==
  AllIdle /\ AddPointsStart(SeqCall, userId, points, meta)
SeqUsePoints(userId, points, meta) ==
  AllIdle /\ UsePointsStart(SeqCall, userId, points, meta)
SeqGetUserPoints(userId) == AllIdle /\ GetUserPointsStart(SeqCall, userId)

\* Ninety days pass between two requests, never within one.
SeqLoyaltyTick == AllIdle /\ LoyaltyTick

\* Sequential use of the loyalty service while the clock advances.
NextLoyalty ==
  \/ SeqLoyaltyTick
  \/ \E u \in LoyaltyUsers : createUserProfile(u, NoEmail)
  \/ \E u \in LoyaltyUsers, n \in PointArgs, m \in CreditMetas : SeqAddPoints(u, n, m)
  \/ \E u \in LoyaltyUsers, n \in PointArgs, m \in DebitMetas : SeqUsePoints(u, n, m)
  \/ \E u \in LoyaltyUsers : SeqGetUserPoints(u)
  \/ \E c \in Calls : ContinueLoyalty(c)
  \/ \E c \in Calls : Return(c)

SpecLoyalty == Init /\ [][NextLoyalty]_vars

\* Concurrent requests to the loyalty service while the clock advances.
NextLoyaltyConc ==
  \/ SeqLoyaltyTick
  \/ \E u \in LoyaltyUsers : createUserProfile(u, NoEmail)
  \/ \E c \in Calls, u \in LoyaltyUsers, n \in ConcCreditArgs, m \in ConcCreditMetas :
        AddPointsStart(c, u, n, m)
  \/ \E c \in Calls, u \in LoyaltyUsers, n \in ConcDebitArgs, m \in DebitMetas :
        UsePointsStart(c, u, n, m)
  \/ \E c \in Calls, u \in LoyaltyUsers : GetUserPointsStart(c, u)
  \/ \E c \in Calls : ContinueLoyalty(c)
  \/ \E c \in Calls : Return(c)

SpecLoyaltyConc == Init /\ [][NextLoyaltyConc]_vars

\* Concurrent requests to the loyalty service with credits that reach the
\* second level.
NextLevel ==
  \/ SeqLoyaltyTick
  \/ \E u \in LoyaltyUsers : createUserProfile(u, NoEmail)
  \/ \E c \in Calls, u \in LoyaltyUsers, n \in LevelCreditArgs, m \in ConcCreditMetas :
        AddPointsStart(c, u, n, m)
  \/ \E c \in Calls, u \in LoyaltyUsers, n \in ConcDebitArgs, m \in DebitMetas :
        UsePointsStart(c, u, n, m)
  \/ \E c \in Calls, u \in LoyaltyUsers : GetUserPointsStart(c, u)
  \/ \E c \in Calls : ContinueLoyalty(c)
  \/ \E c \in Calls : Return(c)

SpecLevel == Init /\ [][NextLevel]_vars

\* Sequential use of the payment service where a save of approvePayment may fail.
SeqCreatePaymentThrows(userId, productId) ==
  AllIdle /\ CreatePaymentThrows(SeqCall, userId, productId)
SeqGetPending == AllIdle /\ GetPendingStart(SeqCall)

NextFail ==
  \/ \E u \in Users, i \in ProdIds : createPayment(u, i)
  \/ \E p \in PayIds, a \in Admins : SeqApprove(p, a)
  \/ \E p \in PayIds, r \in Reasons, a \in Admins : SeqReject(p, r, a)
  \/ \E c \in Calls : ContinuePayment(c)
  \/ \E c \in Calls : ApproveSaveFails(c)
  \/ \E u \in Users, i \in ProdIds : SeqCreatePaymentThrows(u, i)
  \/ \E c \in Calls : RejectSaveFails(c)
  \/ SeqGetPending
  \/ \E c \in Calls : GetPendingFind(c)
  \/ \E c \in Calls : GetPendingFails(c)

SpecFail == Init /\ [][NextFail]_vars

\* Sequential use of the payment service by the buyers and by an administrator
\* who lists the pending approvals.
NextPending ==
  \/ \E u \in Users, i \in ProdIds : createPayment(u, i)
  \/ \E p \in PayIds, a \in Admins : SeqApprove(p, a)
  \/ \E p \in PayIds, r \in Reasons, a \in Admins : SeqReject(p, r, a)
  \/ \E c \in Calls : ContinuePayment(c)
  \/ SeqGetPending
  \/ \E c \in Calls : GetPendingFind(c)

SpecPending == Init /\ [][NextPending]_vars

\* The buyer's account holds a PURCHASE credit that references payment pid.
PurchaseCredited(pid) ==
  /\ pid \in DOMAIN payments
  /\ payments[pid].userId \in DOMAIN loyalty
  /\ \E i \in DOMAIN loyalty[payments[pid].userId].transactions :
        LET tx == loyalty[payments[pid].userId].transactions[i]
        IN tx.reason = "PURCHASE" /\ tx.amount > 0 /\ tx.relatedPaymentId = pid

\* A caller credits the purchase of a completed payment that has no credit yet.
CreditPurchase(pid) ==
  /\ pid \in DOMAIN payments
  /\ payments[pid].status = "COMPLETED"
  /\ ~PurchaseCredited(pid)
  /\ SeqAddPoints(payments[pid].userId, PurchasePoints,
                  [reason |-> "PURCHASE", paymentId |-> pid])

\* Sequential approvals next to the loyalty service; a call in flight runs on.
NextPurchase ==
  \/ \E u \in Users, i \in ProdIds : createPayment(u, i)
  \/ \E p \in PayIds, a \in Admins : SeqApprove(p, a)
  \/ \E p \in PayIds, r \in Reasons, a \in Admins : SeqReject(p, r, a)
  \/ \E p \in PayIds : CreditPurchase(p)
  \/ \E c \in Calls : ContinuePayment(c)
  \/ \E c \in Calls : ContinueAddPoints(c)

SpecPurchase ==
  /\ Init
  /\ [][NextPurchase]_vars
  /\ WF_vars(\E c \in Calls : ContinuePayment(c) \/ ContinueAddPoints(c))

\* The tier function applied to inputs drawn around its thresholds.
InitTier ==
  /\ payments = <<>>
  /\ products = [i \in ProdIds |-> SeedProduct]
  /\ activities = [p \in PayIds |-> [PRODUCT_PURCHASE |-> 0, PAYMENT_REJECTED |-> 0]]
  /\ now = 0
  /\ ticks = 0
  /\ calls = [c \in Calls |-> IdleCall]
  /\ succeeded = [p \in PayIds |-> {}]
  /\ loyalty = <<>>
  /\ reconciled = [u \in Users |-> NeverReconciled]
  /\ profiles = [a \in Admins |-> NewProfile(0, NoEmail)]
  /\ cache = [k \in CacheKeys |-> NoEntry]
  /\ history = [u \in Users |-> <<>>]
  /\ \E a \in TierInputs, b \in TierInputs :
        tier = [pc |-> "in", a |-> a, b |-> b, la |-> 0, lb |-> 0]

SpecTier == InitTier /\ [][CalcTier]_vars

\* ------------------------------------------------------------ properties
Open == {"PENDING", "PROCESSING"}
Terminal == {"COMPLETED", "REJECTED", "EXPIRED"}

DoneCall(c, op) == calls[c].pc = "done" /\ calls[c].op = op

\* Call c starts in this step as operation op.
Starts(c, op) == calls[c].pc = "idle" /\ calls'[c].pc # "idle" /\ calls'[c].op = op

StoreUnchanged ==
  payments' = payments /\ products' = products /\ activities' = activities

\* C1: for every product at most one payment referencing it has status
\* COMPLETED, under any interleaving of approvePayment calls.
C1_OneCompletedPaymentPerProduct ==
  \A p, q \in DOMAIN payments :
    (p # q /\ payments[p].productId = payments[q].productId
           /\ payments[p].status = "COMPLETED")
      => payments[q].status # "COMPLETED"

\* C2: two concurrent approvePayment calls for the same payment id never
\* both return success.
C2_OneApprovalSucceeds ==
  \A c, d \in Calls :
    (c # d /\ DoneCall(c, "approve") /\ DoneCall(d, "approve")
           /\ calls[c].pid = calls[d].pid)
      => ~(calls[c].result.success /\ calls[d].result.success)

\* C3: when approvePayment and rejectPayment race on one payment, exactly
\* one returns success, and no payment is REJECTED while its approval went
\* through and marked the product sold.
C3_ApproveRejectExclusive ==
  \A p \in DOMAIN payments :
    /\ ~({"approve", "reject"} \subseteq succeeded[p])
    /\ (payments[p].status = "REJECTED" /\ products[payments[p].productId].vendido)
         => "approve" \notin succeeded[p]

\* C4: in sequential use, once approvePayment has returned success on a
\* payment no rejectPayment on it succeeds and its status stays COMPLETED;
\* once rejectPayment has returned success no approvePayment on it succeeds
\* and its status stays REJECTED.
C4_ApproveRejectMutuallyExclusive ==
  \A p \in DOMAIN payments :
    /\ "approve" \in succeeded[p]
         => /\ payments[p].status = "COMPLETED"
            /\ "reject" \notin succeeded[p]
            /\ \A c \in Calls : (DoneCall(c, "reject") /\ calls[c].pid = p)
                                   => ~calls[c].result.success
    /\ "reject" \in succeeded[p]
         => /\ payments[p].status = "REJECTED"
            /\ "approve" \notin succeeded[p]
            /\ \A c \in Calls : (DoneCall(c, "approve") /\ calls[c].pid = p)
                                   => ~calls[c].result.success

\* C4 witness: a payment was approved, and a later rejectPayment on it has
\* returned a failure.
C4_Witness ==
  \E p \in DOMAIN payments, c \in Calls :
    /\ "approve" \in succeeded[p]
    /\ DoneCall(c, "reject") /\ calls[c].pid = p
    /\ calls[c].result = Result(FALSE, MsgCannotReject)

\* C5: no payment becomes COMPLETED at a time after its expiration time.
C5_NoCompletionAfterExpiry ==
  \A p \in DOMAIN payments :
    payments[p].status = "COMPLETED" => payments[p].completedAt <= payments[p].expiresAt

\* C6: approvePayment on a payment whose status is COMPLETED returns a
\* failure and changes neither the payment, nor the product, nor the
\* recorded activities.
C6_ApproveCompletedNoMutation ==
  [][\A c \in Calls :
       (/\ Starts(c, "approve")
        /\ calls'[c].pid \in DOMAIN payments
        /\ payments[calls'[c].pid].status = "COMPLETED")
       => /\ calls'[c].pc = "done"
          /\ ~calls'[c].result.success
          /\ StoreUnchanged]_vars

\* C6 witness: an approvePayment call has returned the already-approved
\* failure for a COMPLETED payment.
C6_Witness ==
  \E c \in Calls :
    /\ DoneCall(c, "approve")
    /\ calls[c].result = Result(FALSE, MsgAlreadyApproved)
    /\ payments[calls[c].pid].status = "COMPLETED"

\* C7: no step changes the status of a payment whose status is COMPLETED,
\* REJECTED or EXPIRED.
C7_TerminalStatusIsFinal ==
  [][\A p \in DOMAIN payments :
       payments[p].status \in Terminal => payments'[p].status = payments[p].status]_vars

\* C8: rejectPayment on a PENDING or PROCESSING payment goes on to its save,
\* which leaves the stored payment REJECTED with a rejection time, the given
\* reason and the given rejecter id, and then returns success; on a missing,
\* COMPLETED or REJECTED payment it fails with not-found, already-completed,
\* already-rejected and writes nothing.
C8_RejectPayment ==
  [][\A c \in Calls :
       /\ Starts(c, "reject") =>
            LET pid == calls'[c].pid
            IN /\ pid \notin DOMAIN payments
                    => /\ calls'[c].pc = "done"
                       /\ calls'[c].result = Result(FALSE, MsgPaymentNotFound)
                       /\ StoreUnchanged
               /\ (pid \in DOMAIN payments /\ payments[pid].status = "COMPLETED")
                    => /\ calls'[c].pc = "done"
                       /\ calls'[c].result = Result(FALSE, MsgCannotReject)
                       /\ StoreUnchanged
               /\ (pid \in DOMAIN payments /\ payments[pid].status = "REJECTED")
                    => /\ calls'[c].pc = "done"
                       /\ calls'[c].result = Result(FALSE, MsgRejectedBefore)
                       /\ StoreUnchanged
               /\ (pid \in DOMAIN payments /\ payments[pid].status \in Open)
                    => calls'[c].pc = "r_save"
       /\ (calls[c].op = "reject" /\ calls[c].pc = "r_save" /\ calls'[c].pc # "r_save")
            => /\ calls'[c].pc = "r_record"
               /\ payments'[calls[c].pid].status = "REJECTED"
               /\ payments'[calls[c].pid].rejectedAt # NoTime
               /\ payments'[calls[c].pid].rejectionReason = calls[c].reason
               /\ payments'[calls[c].pid].rejectedBy = calls[c].adminId
       /\ (calls[c].op = "reject" /\ calls[c].pc = "r_record" /\ calls'[c].pc # "r_record")
            => /\ calls'[c].pc = "done"
               /\ calls'[c].result.success]_vars

\* C8 witness: a rejectPayment call on a pending payment has returned
\* success and the stored payment is REJECTED by the given admin.
C8_Witness ==
  \E c \in Calls :
    /\ DoneCall(c, "reject")
    /\ calls[c].result.success
    /\ calls[c].paymentPrev.status = "PENDING"
    /\ payments[calls[c].pid].status = "REJECTED"
    /\ payments[calls[c].pid].rejectedBy = calls[c].adminId

\* C9: every payment whose status is neither PENDING nor PROCESSING has
\* exactly one of approvedBy and rejectedBy set.
C9_ExactlyOneDecider ==
  \A p \in DOMAIN payments :
    payments[p].status \notin Open
      => (payments[p].approvedBy # NULL) # (payments[p].rejectedBy # NULL)

\* C10: for every product vendido implies not disponivel, and a sold product
\* stays sold with its buyer and sale time never overwritten.
C10_SoldOnceAndUnavailable ==
  [][\A i \in ProdIds :
       /\ products'[i].vendido => ~products'[i].disponivel
       /\ products[i].vendido
            => /\ products'[i].vendido
               /\ products'[i].compradoPor = products[i].compradoPor
               /\ products'[i].dataVenda = products[i].dataVenda]_vars

\* ---------------------------------------------- properties of C11..C20
\* Call c reaches its return in this step as operation op.
Finishes(c, op) == calls[c].pc # "done" /\ calls'[c].pc = "done" /\ calls'[c].op = op

LoyaltyOps == {"addPoints", "usePoints", "getUserPoints"}

\* The credits of an account that are ACTIVE and expire after time t.
LiveCredits(acc, t) ==
  {i \in DOMAIN acc.transactions :
     /\ acc.transactions[i].amount > 0
     /\ acc.transactions[i].status = "ACTIVE"
     /\ acc.transactions[i].expiresAt > t}

\* The debits of an account: the redemptions, not the EXPIRATION entries
\* that offset credits no longer counted.
Debits(acc) ==
  {i \in DOMAIN acc.transactions :
     /\ acc.transactions[i].amount < 0
     /\ acc.transactions[i].reason # "EXPIRATION"}

\* C11: createPayment creates a payment only for a product that is
\* available and not sold at that moment.
C11_PaymentOnlyForAvailableProduct ==
  [][Len(payments') > Len(payments)
       => /\ payments'[Len(payments')].status = "PENDING"
          /\ ProductAvailable(products[payments'[Len(payments')].productId])]_vars

\* C12: once no approvePayment call for it is in flight, a COMPLETED payment's
\* product is sold, unavailable and bought by the payment's buyer, also when
\* a save of approvePayment has failed.
C12_CompletedImpliesProductSold ==
  \A p \in DOMAIN payments :
    (/\ payments[p].status = "COMPLETED"
     /\ \A c \in Calls : ~(/\ calls[c].op = "approve" /\ calls[c].pid = p
                           /\ calls[c].pc \notin {"idle", "done"}))
    => /\ products[payments[p].productId].vendido
       /\ ~products[payments[p].productId].disponivel
       /\ products[payments[p].productId].compradoPor = payments[p].userId

\* C13: whenever a payment is COMPLETED, the buyer's loyalty account
\* eventually holds a PURCHASE credit that references the payment.
C13_CompletedLeadsToCredit ==
  \A p \in PayIds :
    (p \in DOMAIN payments /\ payments[p].status = "COMPLETED") ~> PurchaseCredited(p)

\* C14: a user's transaction log holds at most one PURCHASE credit per
\* payment id.
C14_OneCreditPerPayment ==
  \A u \in DOMAIN loyalty :
    \A i, j \in DOMAIN loyalty[u].transactions :
      LET a == loyalty[u].transactions[i]
          b == loyalty[u].transactions[j]
      IN (/\ a.reason = "PURCHASE" /\ b.reason = "PURCHASE"
          /\ a.amount > 0 /\ b.amount > 0
          /\ a.relatedPaymentId # NoPayment
          /\ a.relatedPaymentId = b.relatedPaymentId) => i = j

\* C15: a getUserPoints that follows a completed reconciliation of the same
\* account, with the clock unchanged and no other operation on the account
\* in between, returns at once: it saves nothing, so totalPoints and the
\* transaction log stay as they are, and it returns the stored balance.
C15_ReconciliationIdempotent ==
  [][\A c \in Calls :
       (/\ Starts(c, "getUserPoints")
        /\ calls'[c].userId \in DOMAIN loyalty
        /\ reconciled[calls'[c].userId].runs >= 1
        /\ reconciled[calls'[c].userId].at = now)
       => /\ calls'[c].pc = "done"
          /\ loyalty' = loyalty
          /\ calls'[c].amount = loyalty[calls'[c].userId].totalPoints]_vars

\* C15 witness: a second consecutive reconciliation of an account with an
\* expired credit has returned, the clock unchanged.
C15_Witness ==
  \E u \in DOMAIN loyalty, c \in Calls :
    /\ DoneCall(c, "getUserPoints") /\ calls[c].userId = u
    /\ reconciled[u].runs = 2 /\ reconciled[u].at = now
    /\ \E i \in DOMAIN loyalty[u].transactions :
          loyalty[u].transactions[i].status = "EXPIRED"
    /\ \E i \in DOMAIN loyalty[u].transactions :
          loyalty[u].transactions[i].reason = "EXPIRATION"

\* C16: when a loyalty operation on an existing account returns, the stored
\* totalPoints is the sum of the ACTIVE credits not yet expired minus the
\* sum of the debits.
C16_BalanceEquation ==
  [][\A c \in Calls :
       (/\ \E op \in LoyaltyOps : Finishes(c, op)
        /\ calls'[c].result.success
        /\ calls'[c].userId \in DOMAIN loyalty')
       => LET acc == loyalty'[calls'[c].userId]
          IN acc.totalPoints =
               SumAmounts(acc.transactions, LiveCredits(acc, now'))
               + SumAmounts(acc.transactions, Debits(acc))]_vars

\* C17: every loyalty account has totalPoints >= 0.
C17_BalanceNonNegative ==
  \A u \in DOMAIN loyalty : loyalty[u].totalPoints >= 0

\* C18: no step stores a lifetimePoints lower than the stored one.
C18_LifetimePointsMonotonic ==
  [][\A u \in DOMAIN loyalty :
       loyalty'[u].lifetimePoints >= loyalty[u].lifetimePoints]_vars

\* C19: the tier function gives 5 from 10000, 4 from 5000, 3 from 2000,
\* 2 from 500 and 1 below; it is monotonic and its result is in 1..5.
C19_TierFunction ==
  tier.pc = "out" =>
    /\ tier.la \in 1..5
    /\ (tier.la = 5) = (tier.a >= 10000)
    /\ (tier.la = 4) = (tier.a >= 5000 /\ tier.a < 10000)
    /\ (tier.la = 3) = (tier.a >= 2000 /\ tier.a < 5000)
    /\ (tier.la = 2) = (tier.a >= 500 /\ tier.a < 2000)
    /\ (tier.la = 1) = (tier.a < 500)
    /\ (tier.a <= tier.b => tier.la <= tier.lb)

\* C19 witness: the function has been applied to 1999 and 2000 and gave 2 and 3.
C19_Witness ==
  /\ tier.pc = "out"
  /\ tier.a = 1999 /\ tier.la = 2
  /\ tier.b = 2000 /\ tier.lb = 3

\* C20: a usePoints that asks for more than the balance left after the
\* expired credits are reconciled fails with the insufficient-balance result.
C20_NoSpendingOfExpiredPoints ==
  [][\A c \in Calls :
       (/\ Starts(c, "usePoints")
        /\ calls'[c].userId \in DOMAIN loyalty
        /\ calls'[c].points > 0
        /\ calls'[c].points > ExpiredInstance(loyalty[calls'[c].userId], now).totalPoints)
       => /\ calls'[c].pc = "done"
          /\ calls'[c].result = Result(FALSE, MsgInsufficient)]_vars

\* ---------------------------------------------- properties of C21..C30
\* C21: a getUserPoints that finds ACTIVE credits with expiresAt <= now saves
\* the account with each of them EXPIRED, one more transaction (EXPIRATION,
\* minus their sum) and totalPoints lower by their sum, and returns that
\* balance.
C21_ExpiryOnRead ==
  [][\A c \in Calls :
       /\ (/\ Starts(c, "getUserPoints")
           /\ calls'[c].userId \in DOMAIN loyalty
           /\ \E i \in DOMAIN loyalty[calls'[c].userId].transactions :
                 LET tx == loyalty[calls'[c].userId].transactions[i]
                 IN tx.status = "ACTIVE" /\ tx.expiresAt <= now)
          => calls'[c].pc = "gp_save"
       /\ (calls[c].pc = "gp_save" /\ Finishes(c, "getUserPoints"))
          => LET old == loyalty[calls[c].userId]
                 new == loyalty'[calls[c].userId]
                 due == {i \in DOMAIN old.transactions :
                           /\ old.transactions[i].status = "ACTIVE"
                           /\ old.transactions[i].expiresAt <= now}
                 sum == SumAmounts(old.transactions, due)
             IN /\ Len(new.transactions) = Len(old.transactions) + 1
                /\ \A i \in DOMAIN old.transactions :
                      new.transactions[i] =
                        IF i \in due
                        THEN [old.transactions[i] EXCEPT !.status = "EXPIRED"]
                        ELSE old.transactions[i]
                /\ new.transactions[Len(new.transactions)].reason = "EXPIRATION"
                /\ new.transactions[Len(new.transactions)].amount = 0 - sum
                /\ new.totalPoints = old.totalPoints - sum
                /\ new.lifetimePoints = old.lifetimePoints
                /\ calls'[c].amount = new.totalPoints]_vars

\* C21 witness: a 100-point credit read when its 90 days are over: the call
\* has returned balance 0, the credit is EXPIRED and the log ends with an
\* EXPIRATION transaction of -100.
C21_Witness ==
  \E u \in DOMAIN loyalty, c \in Calls :
    /\ DoneCall(c, "getUserPoints") /\ calls[c].userId = u
    /\ calls[c].amount = 0
    /\ loyalty[u].totalPoints = 0
    /\ Len(loyalty[u].transactions) = 2
    /\ loyalty[u].transactions[1].amount = 100
    /\ loyalty[u].transactions[1].status = "EXPIRED"
    /\ loyalty[u].transactions[1].expiresAt <= now
    /\ loyalty[u].transactions[2].reason = "EXPIRATION"
    /\ loyalty[u].transactions[2].amount = -100

\* C30: a payment has a non-empty deliveryData only if its status is COMPLETED.
C30_CredentialsOnlyWhenCompleted ==
  \A p \in DOMAIN payments :
    payments[p].deliveryData # EmptyDelivery => payments[p].status = "COMPLETED"

\* C26: once approvePayment has marked a product sold, no later getProductById
\* or getAvailableProducts call returns that product as available and unsold.
C26_NoSoldProductServedAsAvailable ==
  [][\A c \in Calls :
       /\ (Finishes(c, "getProductById") /\ calls'[c].prodId \in DOMAIN products
           /\ products[calls'[c].prodId].vendido)
            => ~ProductAvailable(calls'[c].ret)
       /\ Finishes(c, "getAvailableProducts")
            => \A i \in DOMAIN calls'[c].ret : ~products[i].vendido]_vars

\* C28: every exposed core operation returns a structured result on every
\* path, store failures included: no finished call has thrown to its caller.
C28_NoRawException ==
  \A c \in Calls : calls[c].pc = "done" => ~calls[c].thrown

\* The assessment computed from the user's profile and activity history as
\* they are now, with no cache.
FreshAssessment(userId) ==
  IF userId \in DOMAIN profiles
  THEN Assessment(profiles[userId], getUserHistory(userId), now)
  ELSE UnknownAssessment

\* C22: every risk score returned to a caller is within [0, 100]: the score of
\* assessUserRisk and the combined score of checkTransaction.
C22_ScoreWithinBounds ==
  \A c \in Calls :
    (DoneCall(c, "assessUserRisk") \/ DoneCall(c, "checkTransaction"))
      => (calls[c].ret.score >= 0 /\ calls[c].ret.score <= 100)

\* C23: the score and tier assessUserRisk returns are those computed from the
\* user's profile and activity history at the time of the call, so that two
\* calls against the same profile and history agree whatever the assessment
\* cache holds.
C23_ScoreDeterminedBySnapshot ==
  \A c \in Calls :
    DoneCall(c, "assessUserRisk")
      => /\ calls[c].ret.score = FreshAssessment(calls[c].userId).score
         /\ calls[c].ret.risk = FreshAssessment(calls[c].userId).risk

\* C24: checkTransaction returns approved = false exactly when the base tier is
\* high or the base score plus 15 per transaction factor is at least 80, and
\* the tier of every assessment is high from 80, medium from 60, low below.
C24_ApprovalRuleAndTiers ==
  \A c \in Calls :
    /\ DoneCall(c, "checkTransaction")
         => LET b == calls[c].base
                combined == b.score + 15 * Cardinality(calls[c].factors)
            IN /\ (~calls[c].ret.approved) <=> (b.risk = "high" \/ combined >= 80)
               /\ b.risk = (IF b.score >= 80 THEN "high"
                            ELSE IF b.score >= 60 THEN "medium" ELSE "low")
    /\ DoneCall(c, "assessUserRisk")
         => calls[c].ret.risk = (IF calls[c].ret.score >= 80 THEN "high"
                                 ELSE IF calls[c].ret.score >= 60 THEN "medium"
                                 ELSE "low")

\* C25: once a user is blocked, every assessUserRisk for that user returns
\* score 100 and tier high and every checkTransaction returns approved = false,
\* also while an assessment from before the block is in the cache.
C25_BlockedUserIsHighRisk ==
  \A c \in Calls :
    (calls[c].pc = "done" /\ calls[c].userId \in DOMAIN profiles
       /\ profiles[calls[c].userId].isBlocked)
      => /\ calls[c].op = "assessUserRisk"
              => (calls[c].ret.score = 100 /\ calls[c].ret.risk = "high")
         /\ calls[c].op = "checkTransaction" => ~calls[c].ret.approved

\* C29: for an unblocked user whose account is less than one hour old, with no
\* activity history and a non-suspicious email, checkTransaction of an amount
\* of 500 against a purchase average of 20 returns reasons that contain
\* very_new_account and amount_much_higher_than_average and a score >= 60.
C29_NewUserLargeAmountScenario ==
  \A c \in Calls :
    (/\ DoneCall(c, "checkTransaction")
     /\ calls[c].tx.amount = 500
     /\ calls[c].userId \in DOMAIN profiles
     /\ now - profiles[calls[c].userId].createdAt < 3600
     /\ ~profiles[calls[c].userId].isBlocked
     /\ profiles[calls[c].userId].email \notin suspiciousEmailDomains
     /\ getUserHistory(calls[c].userId) = <<>>
     /\ getPurchaseHistory(calls[c].userId) # {})
      => /\ {"very_new_account", "amount_much_higher_than_average"}
              \subseteq calls[c].ret.reasons
         /\ calls[c].ret.score >= 60

RiskOps == {"assessUserRisk", "checkTransaction"}

\* C27 as stated: the risk engine never throws; whenever a collaborator call
\* (profile, history, purchase history, cache) failed, the failure is logged,
\* assessUserRisk returns tier low with score 0 and checkTransaction returns a
\* structured result.
C27_FailOpenOnAnyFailure ==
  \A c \in Calls :
    (calls[c].pc = "done" /\ calls[c].op \in RiskOps)
      => /\ ~calls[c].thrown
         /\ calls[c].failed # {} => calls[c].logged
         /\ (calls[c].op = "assessUserRisk" /\ calls[c].failed # {})
              => (calls[c].ret.risk = "low" /\ calls[c].ret.score = 0)
         /\ calls[c].op = "checkTransaction" => calls[c].ret.approved \in BOOLEAN

\* C27, amended: the risk engine never throws and every failure is logged; when
\* the profile or the history lookup failed, assessUserRisk returns tier low
\* with score 0; when only the cache failed, the assessment is the one
\* computed from the store; checkTransaction returns a structured result.
C27_FailOpenOnStoreFailure ==
  \A c \in Calls :
    (calls[c].pc = "done" /\ calls[c].op \in RiskOps)
      => /\ ~calls[c].thrown
         /\ calls[c].failed # {} => calls[c].logged
         /\ (calls[c].op = "assessUserRisk"
               /\ calls[c].failed \cap {"profile", "history"} # {})
              => (calls[c].ret.risk = "low" /\ calls[c].ret.score = 0)
         /\ (calls[c].op = "assessUserRisk" /\ calls[c].failed = {"cache"})
              => calls[c].ret = FreshAssessment(calls[c].userId)
         /\ calls[c].op = "checkTransaction"
              => /\ calls[c].ret.approved \in BOOLEAN
                 /\ calls[c].ret.score \in Nat

\* A history lookup failed inside assessUserRisk and the call returned the low
\* assessment, logged.
C27_Witness ==
  \E c \in Calls :
    /\ DoneCall(c, "assessUserRisk")
    /\ "history" \in calls[c].failed
    /\ calls[c].logged /\ ~calls[c].thrown
    /\ calls[c].ret.risk = "low" /\ calls[c].ret.score = 0

\* ---- properties of C31..C37
\* The product of the payment a call works on is missing, unavailable or sold.
ProductGone(pid) ==
  \/ payments[pid].productId \notin DOMAIN products
  \/ ~products[payments[pid].productId].disponivel
  \/ products[payments[pid].productId].vendido

\* C31: approvePayment on a PENDING/PROCESSING payment whose product is
\* missing, unavailable or sold returns the product-unavailable failure, leaves
\* the stored payment REJECTED with that reason, and leaves the products as
\* they were.
C31_UnavailableProductRejectsPayment ==
  [][\A c \in Calls :
       /\ (calls[c].op = "approve" /\ calls[c].pc = "a_readProduct"
           /\ calls'[c].pc # "a_readProduct")
            => (ProductGone(calls[c].pid) <=> calls'[c].pc = "a_saveRejected")
       /\ (calls[c].op = "approve" /\ calls[c].pc = "a_saveRejected"
           /\ calls'[c].pc # "a_saveRejected")
            => /\ calls'[c].pc = "done"
               /\ calls'[c].result = Result(FALSE, MsgProductUnavailable)
               /\ payments'[calls[c].pid].status = "REJECTED"
               /\ payments'[calls[c].pid].rejectionReason = ReasonUnavailable
               /\ payments'[calls[c].pid].deliveryData = EmptyDelivery
               /\ products' = products]_vars

\* approvePayment has returned the product-unavailable failure for a payment
\* that names a product outside the catalog, and the payment is REJECTED.
C31_Witness ==
  \E c \in Calls :
    /\ DoneCall(c, "approve")
    /\ calls[c].result = Result(FALSE, MsgProductUnavailable)
    /\ payments[calls[c].pid].productId \notin DOMAIN products
    /\ payments[calls[c].pid].status = "REJECTED"
    /\ payments[calls[c].pid].rejectionReason = ReasonUnavailable

\* reportFraud has recorded a fraud for the user.
Reported(userId) == Count(history[userId], {"FRAUD_DETECTED"}) > 0

\* C32: after reportFraud for a user has returned true, the next assessUserRisk
\* for that user is recomputed from the store (the cached assessment is gone
\* when reportFraud returns), its factors contain previously_reported and its
\* score contains the 40 points of a prior report.
C32_ReportRaisesNextAssessment ==
  \A c \in Calls :
    /\ (DoneCall(c, "reportFraud") /\ calls[c].ret = TRUE)
         => ~CacheHit(CacheKeyFraud(calls[c].userId))
    /\ (DoneCall(c, "assessUserRisk") /\ Reported(calls[c].userId))
         => /\ "previously_reported" \in calls[c].ret.factors
            /\ calls[c].ret.score >= 40

\* The step in which a loyalty call saves the account and returns success.
Writes(c) ==
  /\ calls[c].pc \in {"ap_save", "up_save", "gp_save"}
  /\ calls'[c].pc = "done"
  /\ calls'[c].result.success

\* What a call's write adds to the balance and to the transaction log.
PointsDelta(c) == calls[c].loyalty.totalPoints - calls[c].loyaltyPrev.totalPoints
LogDelta(c) ==
  Len(calls[c].loyalty.transactions) - Len(calls[c].loyaltyPrev.transactions)

\* C33: concurrent loyalty writes for one user lose no update: whatever other
\* writes were stored since a call read the account, when the call returns
\* success the stored balance and transaction log hold those writes and its own.
C33_NoLostLoyaltyUpdate ==
  [][\A c \in Calls :
       Writes(c) =>
         LET u == calls[c].userId
         IN /\ loyalty'[u].totalPoints = loyalty[u].totalPoints + PointsDelta(c)
            /\ Len(loyalty'[u].transactions) =
                 Len(loyalty[u].transactions) + LogDelta(c)]_vars

\* C34: every loyalty account's stored level is _calculateLoyaltyLevel of its
\* stored lifetimePoints.
C34_LevelMatchesLifetimePoints ==
  \A u \in DOMAIN loyalty :
    loyalty[u].level = calculateLoyaltyLevel(loyalty[u].lifetimePoints)

\* C35: an approvePayment call that returns success = false has not completed
\* the payment: a failure at the call's checks changes no payment, and a
\* failure later in the call, a rejected store write included, leaves the
\* payment not COMPLETED and without credentials.
C35_FailedApprovalCompletesNothing ==
  [][\A c \in Calls :
       (Finishes(c, "approve") /\ ~calls'[c].result.success)
         => IF calls[c].pc = "idle"
            THEN payments' = payments
            ELSE /\ payments'[calls[c].pid].status # "COMPLETED"
                 /\ payments'[calls[c].pid].deliveryData = EmptyDelivery]_vars

\* C36: getPendingApprovals returns exactly the payments whose stored status
\* is PENDING or PROCESSING when the call returns: a payment just created is
\* in the list, a payment approved or rejected is not.
C36_PendingListIsCurrent ==
  [][\A c \in Calls :
       Finishes(c, "getPendingApprovals") => calls'[c].ret = PendingRows]_vars

\* A call has just returned a failure.
Fails(c) == calls[c].pc # "done" /\ calls'[c].pc = "done" /\ ~calls'[c].result.success

\* C37: a failed loyalty operation leaves the ledger unchanged. addPoints or
\* usePoints with points <= 0, usePoints above the balance or without an
\* account, and addPoints for a user without profile return success = false;
\* no step of a call that fails changes an account; getUserPoints without an
\* account returns balance 0, lifetime 0 and level 1 and creates no account.
C37_FailedOperationChangesNothing ==
  [][\A c \in Calls :
       LET u == calls'[c].userId
           n == calls'[c].points
           started(op) == calls[c].pc = "idle" /\ calls'[c].pc # "idle"
                            /\ calls'[c].op = op
       IN /\ (started("addPoints") \/ started("usePoints"))
               => /\ loyalty' = loyalty
                  /\ n <= 0 => Fails(c)
          /\ (started("usePoints") /\ u \notin DOMAIN loyalty) => Fails(c)
          /\ (started("usePoints") /\ u \in DOMAIN loyalty
               /\ loyalty[u].totalPoints < n) => Fails(c)
          /\ (started("addPoints") /\ n > 0 /\ u \notin DOMAIN loyalty)
               => calls'[c].pc = "ap_profile"
          /\ (calls[c].pc = "ap_profile" /\ calls'[c].pc # "ap_profile")
               => /\ loyalty' = loyalty
                  /\ u \notin DOMAIN profiles => Fails(c)
          /\ (Fails(c) /\ calls'[c].op \in {"addPoints", "usePoints"})
               => loyalty' = loyalty
          /\ (started("getUserPoints") /\ u \notin DOMAIN loyalty)
               => /\ loyalty' = loyalty
                  /\ calls'[c].pc = "done"
                  /\ calls'[c].ret = EmptyPointsView]_vars

\* addPoints for a user with neither profile nor account has returned a
\* failure, and the user has no account.
C37_Witness ==
  \E c \in Calls :
    /\ DoneCall(c, "addPoints")
    /\ calls[c].points > 0
    /\ calls[c].result = Result(FALSE, MsgUserNotFound)
    /\ calls[c].userId \notin DOMAIN profiles
    /\ calls[c].userId \notin DOMAIN loyalty

====
